---- MODULE Spec2Model ----
(***************************************************************************)
(* A model of the LLM-mediated analysis pipeline of the CTA Evaluation     *)
(* System: the response extractor (LLMInterface.parse_json_response), the  *)
(* risk analyzer and the cognate aligner.                                  *)
(*                                                                         *)
(* Text is a sequence of symbols.  A symbol is either one character with a *)
(* structural role ( { } [ ] , : " space newline ) or a chunk of text that *)
(* holds none of these characters (a word, a number literal, the fence     *)
(* marker,     the labels OUTPUT: and OUTPUT_TEXT:).                       *)
(*                                                                         *)
(* A Python/JSON value is a pair <<tag, payload>>:                         *)
(*   <<"num", n>>    a number, n in hundredths (0.95 is 95)                *)
(*   <<"str", s>>    a string, s its text                                  *)
(*   <<"bool", b>>, <<"null", 0>>                                          *)
(*   <<"list", xs>>  a list of values                                      *)
(*   <<"obj", ps>>   a dict: pairs <<key text, value>> in insertion order, *)
(*                   keys unique                                           *)
(***************************************************************************)
EXTENDS Integers, Sequences, FiniteSets, TLC

\* ------------------------------------------------------------ symbols
Quote == "\""
NL == "\n"
SP == " "
\* the fence marker, three backticks
Fence == "FENCE"
JsonTag == "json"
OutputLabel == "OUTPUT:"
OutputTextLabel == "OUTPUT_TEXT:"

\* str.strip() and the whitespace of the JSON decoder
WS == {SP, NL}

\* number literals of the alphabet and their values in hundredths
NumTable ==
    ("0" :> 0) @@ ("1" :> 100) @@ ("2" :> 200) @@ ("42" :> 4200) @@
    ("0.5" :> 50) @@ ("0.95" :> 95) @@ ("1.4" :> 140) @@ ("-0.2" :> -20) @@
    ("0.7" :> 70) @@ ("100" :> 10000) @@ ("119" :> 11900) @@ ("19" :> 1900) @@
    ("25" :> 2500)

NumLits == DOMAIN NumTable

Min(S) == CHOOSE x \in S : \A y \in S : x <= y
Max(S) == CHOOSE x \in S : \A y \in S : x >= y

\* ------------------------------------------------------------ values
Num(n) == <<"num", n>>
Str(s) == <<"str", s>>
Bool(b) == <<"bool", b>>
Null == <<"null", 0>>
List(xs) == <<"list", xs>>
Obj(ps) == <<"obj", ps>>

IsNum(v) == v[1] = "num"
IsStr(v) == v[1] = "str"
IsBool(v) == v[1] = "bool"
IsList(v) == v[1] = "list"
IsObj(v) == v[1] = "obj"

\* dict operations on the pairs of an object
\* the index of key k among the pairs, 0 when absent
KeyIndex(ps, k) ==
    LET at == {i \in 1..Len(ps) : ps[i][1] = k}
    IN  IF at = {} THEN 0 ELSE Min(at)

\* k in d
Has(d, k) == KeyIndex(d[2], k) # 0

\* d[k]
Get(d, k) == d[2][KeyIndex(d[2], k)][2]

\* d[k] = v
Put(d, k, v) ==
    LET i == KeyIndex(d[2], k)
    IN  IF i = 0 THEN Obj(Append(d[2], <<k, v>>))
        ELSE Obj([d[2] EXCEPT ![i] = <<k, v>>])

\* ------------------------------------------------------------ text helpers
StartsWith(s, c) == Len(s) > 0 /\ s[1] = c
EndsWith(s, c) == Len(s) > 0 /\ s[Len(s)] = c

\* str.strip(): without the whitespace at both ends
Strip(s) ==
    LET keep == {i \in 1..Len(s) : s[i] \notin WS}
    IN  IF keep = {} THEN <<>> ELSE SubSeq(s, Min(keep), Max(keep))

\* str.count(c) for a one-character c
Count(s, c) == Cardinality({i \in 1..Len(s) : s[i] = c})

IsPrefixAt(s, sep, i) ==
    /\ i + Len(sep) - 1 <= Len(s)
    /\ \A k \in 1..Len(sep) : s[i + k - 1] = sep[k]

\* sep in s
Contains(s, sep) == \E i \in 1..Len(s) : IsPrefixAt(s, sep, i)

\* str.split(sep): the pieces between the occurrences of sep, left to right
\* (no separator used here can overlap itself)
Split(s, sep) ==
    LET at == {i \in 1..Len(s) : IsPrefixAt(s, sep, i)}
        n == Cardinality(at)
        pos(k) == CHOOSE p \in at : Cardinality({q \in at : q < p}) = k - 1
    IN  [k \in 1..(n + 1) |->
            SubSeq(s, IF k = 1 THEN 1 ELSE pos(k - 1) + Len(sep),
                      IF k = n + 1 THEN Len(s) ELSE pos(k) - 1)]

\* sep.join(parts)
RECURSIVE Join(_, _)
Join(parts, sep) ==
    IF Len(parts) = 0 THEN <<>>
    ELSE IF Len(parts) = 1 THEN parts[1]
    ELSE LET h == Len(parts) \div 2
         IN  Join(SubSeq(parts, 1, h), sep) \o sep
                 \o Join(SubSeq(parts, h + 1, Len(parts)), sep)

\* str.replace(old, '') for a one-symbol old
Remove(s, old) == SelectSeq(s, LAMBDA x : x # old)

\* ------------------------------------------------------------ json.loads
\* A decoding step returns <<"ok", value, next index>> or DecodeError.
DecodeError == <<"JSONDecodeError", 0, 0>>

\* the first index from i on that holds no whitespace (Len(s) + 1 at the end)
SkipWs(s, i) ==
    LET stop == {j \in i..Len(s) : s[j] \notin WS}
    IN  IF stop = {} THEN Len(s) + 1 ELSE Min(stop)

\* the index of the quote closing the string whose text starts at i; 0 when
\* the string is not terminated or holds a control character (strict mode)
StrEnd(s, i) ==
    LET stop == {j \in i..Len(s) : s[j] \in {Quote, NL}}
    IN  IF stop = {} THEN 0
        ELSE IF s[Min(stop)] = Quote THEN Min(stop)
        ELSE 0

RECURSIVE ScanOnce(_, _)
RECURSIVE ObjMembers(_, _, _)
RECURSIVE ArrElements(_, _, _)

\* JSONObject: i is the index after the opening brace
JSONObject(s, i0) ==
    LET First(i) ==
            CASE i > Len(s) -> DecodeError
              [] i <= Len(s) /\ s[i] = "}" -> <<"ok", Obj(<<>>), i + 1>>
              [] i <= Len(s) /\ s[i] = Quote -> ObjMembers(s, i, Obj(<<>>))
              [] OTHER -> DecodeError
    IN  First(SkipWs(s, i0))

\* one "key": value member starting at the quote at i, then , or }
ObjMembers(s, i, acc) ==
    LET \* after the value r of the member with this key
        After(key, r) ==
            LET Rest(e, n, acc2) ==
                    CASE e > Len(s) -> DecodeError
                      [] e <= Len(s) /\ s[e] = "}" -> <<"ok", acc2, e + 1>>
                      [] e <= Len(s) /\ s[e] = ","
                            /\ n <= Len(s) /\ s[n] = Quote -> ObjMembers(s, n, acc2)
                      [] OTHER -> DecodeError
                Sep(e) == Rest(e, SkipWs(s, e + 1), Put(acc, key, r[2]))
            IN  IF r[1] # "ok" THEN DecodeError ELSE Sep(SkipWs(s, r[3]))
        \* after the key that ends at ke, with the next token at c
        Value(ke, c) ==
            CASE ke = 0 -> DecodeError
              [] ke # 0 /\ (c > Len(s) \/ s[c] # ":") -> DecodeError
              [] ke # 0 /\ c <= Len(s) /\ s[c] = ":" ->
                    After(SubSeq(s, i + 1, ke - 1), ScanOnce(s, SkipWs(s, c + 1)))
        Key(ke) == Value(ke, SkipWs(s, ke + 1))
    IN  Key(StrEnd(s, i + 1))

\* JSONArray: i is the index after the opening bracket
JSONArray(s, i0) ==
    LET First(i) ==
            CASE i > Len(s) -> DecodeError
              [] i <= Len(s) /\ s[i] = "]" -> <<"ok", List(<<>>), i + 1>>
              [] OTHER -> ArrElements(s, i, <<>>)
    IN  First(SkipWs(s, i0))

ArrElements(s, i, acc) ==
    LET \* after the element r
        After(r) ==
            LET Rest(e, acc2) ==
                    CASE e > Len(s) -> DecodeError
                      [] e <= Len(s) /\ s[e] = "]" -> <<"ok", List(acc2), e + 1>>
                      [] e <= Len(s) /\ s[e] = "," ->
                            ArrElements(s, SkipWs(s, e + 1), acc2)
                      [] OTHER -> DecodeError
            IN  IF r[1] # "ok" THEN DecodeError
                ELSE Rest(SkipWs(s, r[3]), Append(acc, r[2]))
    IN  After(ScanOnce(s, i))

\* scan_once: the value starting at index i
ScanOnce(s, i) ==
    CASE i > Len(s) -> DecodeError
      [] i <= Len(s) /\ s[i] = Quote ->
            LET String(e) ==
                    IF e = 0 THEN DecodeError
                    ELSE <<"ok", Str(SubSeq(s, i + 1, e - 1)), e + 1>>
            IN  String(StrEnd(s, i + 1))
      [] i <= Len(s) /\ s[i] = "{" -> JSONObject(s, i + 1)
      [] i <= Len(s) /\ s[i] = "[" -> JSONArray(s, i + 1)
      [] i <= Len(s) /\ s[i] = "null" -> <<"ok", Null, i + 1>>
      [] i <= Len(s) /\ s[i] = "true" -> <<"ok", Bool(TRUE), i + 1>>
      [] i <= Len(s) /\ s[i] = "false" -> <<"ok", Bool(FALSE), i + 1>>
      [] i <= Len(s) /\ s[i] \in NumLits -> <<"ok", Num(NumTable[s[i]]), i + 1>>
      [] OTHER -> DecodeError

\* json.loads(s): <<"ok", value>> or <<"JSONDecodeError", 0>>; text after the
\* value other than whitespace is an error (Extra data)
JsonLoads(s) ==
    LET End(r) ==
            IF r[1] # "ok" THEN <<"JSONDecodeError", 0>>
            ELSE IF SkipWs(s, r[3]) # Len(s) + 1 THEN <<"JSONDecodeError", 0>>
            ELSE <<"ok", r[2]>>
    IN  End(ScanOnce(s, SkipWs(s, 1)))

\* ------------------------------------------------------------ re.search
\* A pattern is a sequence of nodes:
\*   <<"chr", c>>       the character c
\*   <<"lazyany", 0>>   .*?    (DOTALL)
\*   <<"ws", 0>>        \s*
\*   <<"nobrace", 0>>   [^{}]*
\*   <<"star", p>>      (?:p)*  for a pattern p that matches no empty text
\* MatchAt is the index after the match that the backtracking search of re
\* finds first for a match starting at i, 0 when there is none: a lazy
\* repetition tries the shortest text first, a greedy one the longest.
RECURSIVE MatchAt(_, _, _)
MatchAt(nodes, s, i) ==
    IF Len(nodes) = 0 THEN i
    ELSE
        LET n == Head(nodes)
            rest == Tail(nodes)
            \* the indices after a run of characters of the class from i on
            run(inClass(_)) ==
                {j \in i..(Len(s) + 1) : \A k \in i..(j - 1) : inClass(s[k])}
            ends(J) == {j \in J : MatchAt(rest, s, j) # 0}
            shortest(J) == IF ends(J) = {} THEN 0 ELSE MatchAt(rest, s, Min(ends(J)))
            longest(J) == IF ends(J) = {} THEN 0 ELSE MatchAt(rest, s, Max(ends(J)))
            again == MatchAt(n[2] \o nodes, s, i)
        IN  CASE n[1] = "chr" ->
                    IF i <= Len(s) /\ s[i] = n[2] THEN MatchAt(rest, s, i + 1) ELSE 0
              [] n[1] = "lazyany" -> shortest(i..(Len(s) + 1))
              [] n[1] = "ws" -> longest(run(LAMBDA c : c \in WS))
              [] n[1] = "nobrace" -> longest(run(LAMBDA c : c \notin {"{", "}"}))
              [] n[1] = "star" -> IF again # 0 THEN again ELSE MatchAt(rest, s, i)

\* re.search(pattern, s): the leftmost match as <<first, last>>, <<0, 0>>
\* when there is none
Search(nodes, s) ==
    LET starts == {i \in 1..(Len(s) + 1) : MatchAt(nodes, s, i) # 0}
    IN  IF starts = {} THEN <<0, 0>>
        ELSE <<Min(starts), MatchAt(nodes, s, Min(starts)) - 1>>

Chr(c) == <<"chr", c>>
AnyLazy == <<"lazyany", 0>>
WsStar == <<"ws", 0>>
NoBraceStar == <<"nobrace", 0>>

\* r'\[.*?\]'
ArrayMatchRe == <<Chr("["), AnyLazy, Chr("]")>>

\* r'\{.*?\}'
ObjMatchRe == <<Chr("{"), AnyLazy, Chr("}")>>

\* r'\[\s*\{.*?\}\s*(?:,\s*\{.*?\}\s*)*\]'
ArrayPattern ==
    <<Chr("["), WsStar, Chr("{"), AnyLazy, Chr("}"), WsStar,
      <<"star", <<Chr(","), WsStar, Chr("{"), AnyLazy, Chr("}"), WsStar>> >>,
      Chr("]")>>

\* r'\{[^{}]*(?:\{[^{}]*\}[^{}]*)*\}'
ObjPattern ==
    <<Chr("{"), NoBraceStar,
      <<"star", <<Chr("{"), NoBraceStar, Chr("}"), NoBraceStar>> >>,
      Chr("}")>>

\* ------------------------------------------------------------ parse_json_response
\* the fence, label and prefix handling of lines 105-114
StripMarkers(content) ==
    IF Contains(content, <<Fence, JsonTag>>)
    THEN Split(Split(content, <<Fence, JsonTag>>)[2], <<Fence>>)[1]
    ELSE IF StartsWith(content, Fence)
    THEN Split(Split(content, <<Fence>>)[2], <<Fence>>)[1]
    ELSE IF Contains(content, <<OutputLabel>>)
    THEN Strip(Remove(content, OutputLabel))
    ELSE IF Contains(content, <<OutputTextLabel>>)
    THEN Strip(Remove(content, OutputTextLabel))
    ELSE content

\* whether the line scan stops after this (stripped) line
LineEndsScan(line) ==
    EndsWith(line, "}") /\ Count(line, "{") <= Count(line, "}")

\* the loop of lines 121-129: json_lines after the lines from index k on
RECURSIVE ScanLines(_, _, _, _)
ScanLines(lines, k, json_started, json_lines) ==
    IF k > Len(lines) THEN json_lines
    ELSE
        LET line == Strip(lines[k])
            started == json_started \/ StartsWith(line, "{")
        IN  IF ~started THEN ScanLines(lines, k + 1, FALSE, json_lines)
            ELSE IF LineEndsScan(line) THEN Append(json_lines, line)
            ELSE ScanLines(lines, k + 1, TRUE, Append(json_lines, line))

\* lines 116-135: the text handed to the decoder
JsonCandidate(content) ==
    LET json_lines == ScanLines(Split(content, <<NL>>), 1, FALSE, <<>>)
    IN  Strip(IF Len(json_lines) > 0 THEN Join(json_lines, <<NL>>) ELSE content)

Group(s, m) == SubSeq(s, m[1], m[2])

\* lines 140-160: the try block, <<"ok", value>> or <<"JSONDecodeError", 0>>
TryParse(response_content) ==
    LET \* lines 141-160: the text that the branch taken hands to json.loads
        Matched(content, array_match, obj_match) ==
            IF StartsWith(content, "[") /\ EndsWith(content, "]") THEN content
            ELSE IF StartsWith(content, "{") /\ EndsWith(content, "}") THEN content
            ELSE IF array_match[1] # 0 THEN Group(content, array_match)
            ELSE IF obj_match[1] # 0 THEN Group(content, obj_match)
            ELSE content
        Decode(content) ==
            JsonLoads(Matched(content, Search(ArrayMatchRe, content),
                              Search(ObjMatchRe, content)))
    IN  Decode(JsonCandidate(StripMarkers(Strip(response_content))))

\* lines 162-186: the handler of JSONDecodeError, on the original text
FallbackParse(response_content) ==
    LET \* json.loads of the text matched, when there is a match
        Decode(m) ==
            IF m[1] = 0 THEN <<"JSONDecodeError", 0>>
            ELSE JsonLoads(Strip(Group(response_content, m)))
        First(a, o) ==
            IF a[1] = "ok" THEN a
            ELSE IF o[1] = "ok" THEN o
            ELSE <<"ValueError", response_content>>
    IN  First(Decode(Search(ArrayPattern, response_content)),
              Decode(Search(ObjPattern, response_content)))

\* LLMInterface.parse_json_response: <<"ok", value>>, or <<"ValueError", raw>>
\* for the ValueError whose message holds the response text
parse_json_response(response_content) ==
    LET Handle(r) == IF r[1] = "ok" THEN r ELSE FallbackParse(response_content)
    IN  Handle(TryParse(response_content))

\* ------------------------------------------------------------ Python built-ins
\* a raised exception, with the text of str(e)
Raise(msg) == <<"raise", msg>>
Ok(v) == <<"ok", v>>
Raised(r) == r[1] = "raise"

\* str.lower() and str.upper() of the characters of the alphabet
LowerOf ==
    ("X" :> "x") @@ ("Q" :> "q") @@ ("A" :> "a") @@ ("TR" :> "tr") @@ ("UZ" :> "uz")
    @@ ("XX" :> "xx")

UpperOf ==
    ("x" :> "X") @@ ("q" :> "Q") @@ ("a" :> "A") @@ ("tr" :> "TR") @@ ("uz" :> "UZ")
    @@ ("xx" :> "XX")

Lower(s) == [i \in 1..Len(s) |-> IF s[i] \in DOMAIN LowerOf THEN LowerOf[s[i]] ELSE s[i]]
Upper(s) == [i \in 1..Len(s) |-> IF s[i] \in DOMAIN UpperOf THEN UpperOf[s[i]] ELSE s[i]]

\* str.count(sub): the occurrences of sub in s that do not overlap, counted
\* from the left; Len(s) + 1 for the empty sub
RECURSIVE CountFrom(_, _, _)
CountFrom(s, sub, i) ==
    IF i + Len(sub) - 1 > Len(s) THEN 0
    ELSE IF IsPrefixAt(s, sub, i) THEN 1 + CountFrom(s, sub, i + Len(sub))
    ELSE CountFrom(s, sub, i + 1)

CountSub(s, sub) == IF Len(sub) = 0 THEN Len(s) + 1 ELSE CountFrom(s, sub, 1)

\* the literal of a number
NumText(n) == CHOOSE l \in NumLits : NumTable[l] = n

\* str(v); the repr of a list or dict is one chunk
PyStr(v) ==
    CASE IsStr(v) -> v[2]
      [] IsNum(v) -> <<NumText(v[2])>>
      [] IsBool(v) -> <<IF v[2] THEN "True" ELSE "False">>
      [] v = Null -> <<"None">>
      [] OTHER -> <<"repr">>

\* float(v): a number, a bool, or a string that is one number literal with
\* whitespace around it; ValueError for another string, TypeError otherwise
PyFloat(v) ==
    CASE IsNum(v) -> Ok(v[2])
      [] IsBool(v) -> Ok(IF v[2] THEN 100 ELSE 0)
      [] IsStr(v) ->
            IF Len(Strip(v[2])) = 1 /\ Strip(v[2])[1] \in NumLits
            THEN Ok(NumTable[Strip(v[2])[1]])
            ELSE Raise(<<"could not convert string to float">>)
      [] OTHER -> Raise(<<"float() argument must be a string or a number">>)

\* whether v can be an element of a set or a key of a dict
Hashable(v) == ~IsList(v) /\ ~IsObj(v)

\* bool(v)
Truthy(v) ==
    CASE IsNum(v) -> v[2] # 0
      [] IsBool(v) -> v[2]
      [] v = Null -> FALSE
      [] OTHER -> Len(v[2]) > 0

\* the values as elements of a Python set: True and 1, False and 0 are equal
SetKey(v) == IF IsBool(v) THEN Num(IF v[2] THEN 100 ELSE 0) ELSE v

\* an int as a value (numbers are held in hundredths)
Whole(n) == Num(100 * n)

\* total / count, kept exact
Quot(total, count) == <<"quot", <<total, count>>>>

Range(xs) == {xs[i] : i \in 1..Len(xs)}

\* ------------------------------------------------------------ LLMInterface.call_llm
\* what the generation service does with a request
Failure == <<"failure", 0>>
Content(t) == <<"content", t>>

\* a failed request is issued a second time
Requests_Retry(cl) == IF cl THEN 2 ELSE 0

\* the requests call_llm issues: none without a client
Requests(cl) == IF cl THEN 1 ELSE 0

\* call_llm: the response dict, or the exception of line 56 or line 88
call_llm(cl, outcome) ==
    IF ~cl THEN Raise(<<"API key ayarlanmamis">>)
    ELSE IF outcome = Failure THEN Raise(<<"LLM cagrisi basarisiz: ", "transport">>)
    ELSE Ok(Obj(<< <<<<"content">>, Str(outcome[2])>>,
                   <<<<"model">>, Str(<<"gpt-4o">>)>>,
                   <<<<"usage">>, Obj(<<>>)>>,
                   <<<<"response_time">>, Num(10)>>,
                   <<<<"timestamp">>, Num(0)>> >>))

\* the llm_metadata of a task result
LlmMetadata(resp) ==
    Obj(<< <<<<"model">>, Get(resp, <<"model">>)>>,
           <<<<"usage">>, Get(resp, <<"usage">>)>>,
           <<<<"response_time">>, Get(resp, <<"response_time">>)>> >>)

\* what parse_json_response raises, as str(e)
ParseErrorText(t) == <<"JSON parse hatasi", NL, "Icerik: ">> \o t

\* ------------------------------------------------------------ RiskAnalyzer
new_letters ==
    {"x", "X", "schwa", "SCHWA", "a_uml", "A_UML", "q", "Q", "n_tilde", "N_TILDE",
     "u_circ", "U_CIRC", "o_grave", "O_GRAVE"}

\* every letter of the text is taken for a tracked one
find_new_letters_AnyLetter(text) == {text[i] : i \in 1..Len(text)} \ WS

\* _find_new_letters: the tracked letters that occur in the text
find_new_letters(text) == {l \in new_letters : \E i \in 1..Len(text) : text[i] = l}

required_risk_fields ==
    {<<"letter">>, <<"possible_confusions">>, <<"languages">>, <<"examples">>,
     <<"confidence">>}

\* lines 169-176: a field that is no list becomes the list of its str()
AsList(risk, field) ==
    IF IsList(Get(risk, field)) THEN risk
    ELSE Put(risk, field, List(<<Str(PyStr(Get(risk, field)))>>))

\* the clamp without its upper end
Clamp01_NoUpper(c) == IF c < 0 THEN 0 ELSE c

Clamp01(c) == IF c < 0 THEN 0 ELSE IF c > 100 THEN 100 ELSE c

\* lines 179-183
NormalizeConfidence(risk) ==
    LET f == PyFloat(Get(risk, <<"confidence">>))
    IN  Put(risk, <<"confidence">>, Num(IF Raised(f) THEN 50 ELSE Clamp01(f[2])))

severities == {Str(<<"low">>), Str(<<"medium">>), Str(<<"high">>)}

\* lines 186-187
CheckSeverity(risk) ==
    IF ~Has(risk, <<"severity">>) \/ Get(risk, <<"severity">>) \notin severities
    THEN Put(risk, <<"severity">>, Str(<<"medium">>))
    ELSE risk

\* lines 190-191
AddContext(risk) ==
    IF Has(risk, <<"context">>) THEN risk
    ELSE Put(risk, <<"context">>,
             Str(<<"Phonetic ambiguity for letter '">> \o PyStr(Get(risk, <<"letter">>))
                 \o <<"'">>))

\* lines 194-195; the letter is a string here
AddFrequency(risk, text) ==
    LET letter == Get(risk, <<"letter">>)[2]
    IN  Put(risk, <<"frequency_in_text">>,
            Whole(CountSub(text, Lower(letter)) + CountSub(text, Upper(letter))))

\* _validate_and_enrich_risk: the enriched record, or Null.  A risk that is
\* no dict, or whose letter is no string, raises inside the try and is
\* dropped by the except of line 199.
validate_and_enrich_risk(risk, text) ==
    IF ~IsObj(risk) THEN Null
    ELSE IF \E field \in required_risk_fields : ~Has(risk, field) THEN Null
    ELSE
        LET lists == AsList(AsList(AsList(risk, <<"possible_confusions">>),
                                   <<"languages">>), <<"examples">>)
            enriched == AddContext(CheckSeverity(NormalizeConfidence(lists)))
        IN  IF ~IsStr(Get(risk, <<"letter">>)) THEN Null
            ELSE AddFrequency(enriched, text)

\* the sum of f[i] over the indices in S
RECURSIVE SumOver(_, _)
SumOver(f, S) ==
    IF S = {} THEN 0
    ELSE LET i == CHOOSE x \in S : TRUE IN f[i] + SumOver(f, S \ {i})

\* the first three items of letter_risk_count, not sorted
most_problematic_letters_Unsorted(risks) ==
    LET n == Len(risks)
        letter(i) == Get(risks[i], <<"letter">>)
        first == {i \in 1..n : \A j \in 1..(i - 1) : letter(j) # letter(i)}
        count(i) == Cardinality({j \in 1..n : letter(j) = letter(i)})
        rank(i) == 1 + Cardinality({j \in first : j < i})
        top == Min({3, Cardinality(first)})
        at(r) == CHOOSE i \in first : rank(i) = r
    IN  List([r \in 1..top |-> List(<<letter(at(r)), Whole(count(at(r)))>>)])

\* lines 242-246: the items of letter_risk_count, most frequent first, the
\* order of first appearance among equals (sorted is stable), three at most
most_problematic_letters(risks) ==
    LET n == Len(risks)
        letter(i) == Get(risks[i], <<"letter">>)
        first == {i \in 1..n : \A j \in 1..(i - 1) : letter(j) # letter(i)}
        count(i) == Cardinality({j \in 1..n : letter(j) = letter(i)})
        rank(i) == 1 + Cardinality({j \in first :
                        count(j) > count(i) \/ (count(j) = count(i) /\ j < i)})
        top == Min({3, Cardinality(first)})
        at(r) == CHOOSE i \in first : rank(i) = r
    IN  List([r \in 1..top |-> List(<<letter(at(r)), Whole(count(at(r)))>>)])

\* the elements of every languages list
CoveredLanguages(risks) ==
    UNION {Range(Get(risks[i], <<"languages">>)[2]) : i \in 1..Len(risks)}

\* _calculate_risk_statistics over validated records; language_coverage is
\* list(set(...)), whose order is not determined, held as a set
calculate_risk_statistics(risks, text) ==
    LET n == Len(risks)
        sev(name) == Whole(Cardinality({i \in 1..n :
                            Get(risks[i], <<"severity">>) = Str(<<name>>)}))
        conf == [i \in 1..n |-> Get(risks[i], <<"confidence">>)[2]]
        freq == [i \in 1..n |-> Get(risks[i], <<"frequency_in_text">>)[2]]
    IN  IF n = 0 THEN Ok(Obj(<< <<<<"total_risks">>, Whole(0)>> >>))
        ELSE IF \E l \in CoveredLanguages(risks) : ~Hashable(l)
        THEN Raise(<<"unhashable type">>)
        ELSE Ok(Obj(<<
            <<<<"total_risks">>, Whole(n)>>,
            <<<<"severity_distribution">>,
              Obj(<< <<<<"low">>, sev("low")>>, <<<<"medium">>, sev("medium")>>,
                     <<<<"high">>, sev("high")>> >>)>>,
            <<<<"average_confidence">>, Quot(SumOver(conf, 1..n), n)>>,
            <<<<"most_problematic_letters">>, most_problematic_letters(risks)>>,
            <<<<"language_coverage">>,
              <<"set", {SetKey(l) : l \in CoveredLanguages(risks)}>> >>,
            <<<<"total_new_letters_in_text">>, Num(SumOver(freq, 1..n))>> >>))

\* lines 71-87
NoLettersResult ==
    Obj(<< <<<<"risks">>, List(<< Obj(<<
                <<<<"letter">>, Str(<<"none">>)>>,
                <<<<"possible_confusions">>, List(<<>>)>>,
                <<<<"languages">>, List(<<>>)>>,
                <<<<"examples">>, List(<<>>)>>,
                <<<<"confidence">>, Num(100)>>,
                <<<<"context">>, Str(<<"No new CTA letters found in text">>)>>,
                <<<<"severity">>, Str(<<"low">>)>> >>) >>)>>,
           <<<<"statistics">>, Obj(<< <<<<"total_risks">>, Whole(0)>>,
                                      <<<<"new_letters_count">>, Whole(0)>> >>)>>,
           <<<<"llm_metadata">>, Obj(<<>>)>> >>)

\* lines 144-149
RiskError(msg, ota_text) ==
    Obj(<< <<<<"risks">>, List(<<>>)>>,
           <<<<"error">>, Str(<<"Risk analysis error: ">> \o msg)>>,
           <<<<"input_text">>, Str(ota_text)>> >>)

\* lines 124-135: what is iterated is a list, or the characters of a string;
\* anything else is not iterable
RiskItems(risks) ==
    CASE IsObj(risks) -> Ok(<<risks>>)
      [] IsList(risks) -> Ok(risks[2])
      [] IsStr(risks) -> Ok([i \in 1..Len(risks[2]) |-> Str(<<risks[2][i]>>)])
      [] OTHER -> Raise(<<"object is not iterable">>)

\* the loop without the check of line 132
validated_risks_KeepNone(items, ota_text) ==
    [i \in 1..Len(items) |-> validate_and_enrich_risk(items[i], ota_text)]

validated_risks(items, ota_text) ==
    SelectSeq([i \in 1..Len(items) |-> validate_and_enrich_risk(items[i], ota_text)],
              LAMBDA r : r # Null)

\* analyze_risks, lines 62-149
analyze_risks(cl, ota_text, outcome) ==
    IF Strip(ota_text) = <<>> THEN
        Obj(<< <<<<"risks">>, List(<<>>)>>,
               <<<<"error">>,
                 Str(<<"Empty text - CTA text is required for risk analysis">>)>> >>)
    ELSE IF find_new_letters(ota_text) = {} THEN NoLettersResult
    ELSE
        LET \* lines 134-142, after _calculate_risk_statistics
            Finish(resp, valid, stats) ==
                IF Raised(stats) THEN RiskError(stats[2], ota_text)
                ELSE Obj(<< <<<<"risks">>, List(valid)>>,
                            <<<<"statistics">>, stats[2]>>,
                            <<<<"llm_metadata">>, LlmMetadata(resp[2])>> >>)
            Validated(resp, valid) ==
                Finish(resp, valid, calculate_risk_statistics(valid, ota_text))
            \* lines 120-132, the loop over the parsed risks
            Iterated(resp, items) ==
                IF Raised(items) THEN RiskError(items[2], ota_text)
                ELSE Validated(resp, validated_risks(items[2], ota_text))
            \* line 118, after parse_json_response
            Parsed(resp, doc) ==
                IF doc[1] # "ok" THEN RiskError(ParseErrorText(doc[2]), ota_text)
                ELSE Iterated(resp, RiskItems(doc[2]))
            \* lines 110-115, after call_llm
            Answer(resp) ==
                IF Raised(resp) THEN RiskError(resp[2], ota_text)
                ELSE Parsed(resp, parse_json_response(Get(resp[2], <<"content">>)[2]))
        IN  Answer(call_llm(cl, outcome))

\* the requests analyze_risks issues
RiskRequests(cl, ota_text) ==
    IF Strip(ota_text) = <<>> \/ find_new_letters(ota_text) = {} THEN 0
    ELSE Requests(cl)

\* ------------------------------------------------------------ CognateAligner
supported_languages ==
    ("tr" :> "Turkish") @@ ("az" :> "Azerbaijani") @@ ("uz" :> "Uzbek")
    @@ ("kk" :> "Kazakh") @@ ("ky" :> "Kyrgyz") @@ ("tk" :> "Turkmen")
    @@ ("tt" :> "Tatar") @@ ("ba" :> "Bashkir") @@ ("cv" :> "Chuvash")
    @@ ("sah" :> "Sakha") @@ ("ug" :> "Uyghur")

Colon == ":"

\* lines 156-166: the candidate of one stripped line, or Null
Candidate(line) ==
    LET at == Min({i \in 1..Len(line) : line[i] = Colon})
        lang_code == Lower(Strip(SubSeq(line, 1, at - 1)))
        word == Strip(SubSeq(line, at + 1, Len(line)))
    IN  IF Len(line) = 0 \/ Colon \notin Range(line) THEN Null
        ELSE IF Len(lang_code) = 0 \/ Len(word) = 0 THEN Null
        ELSE Obj(<< <<<<"lang">>, Str(lang_code)>>,
                    <<<<"original">>, Str(word)>>,
                    <<<<"language_name">>,
                      Str(IF Len(lang_code) = 1 /\ lang_code[1] \in DOMAIN supported_languages
                          THEN <<supported_languages[lang_code[1]]>>
                          ELSE Upper(lang_code))>> >>)

\* _parse_candidates
parse_candidates(input_text) ==
    LET lines == Split(Strip(input_text), <<NL>>)
    IN  SelectSeq([i \in 1..Len(lines) |-> Candidate(Strip(lines[i]))],
                  LAMBDA c : c # Null)

\* x in container: the keys of a dict, the elements of a list, the
\* substrings of a string
In(k, container) ==
    CASE IsObj(container) -> Ok(Has(container, k))
      [] IsList(container) -> Ok(Str(k) \in Range(container[2]))
      [] IsStr(container) -> Ok(Contains(container[2], k))
      [] OTHER -> Raise(<<"argument is not iterable">>)

\* what a for loop goes through
Iterate(v) ==
    CASE IsList(v) -> Ok(v[2])
      [] IsStr(v) -> Ok([i \in 1..Len(v[2]) |-> Str(<<v[2][i]>>)])
      [] IsObj(v) -> Ok([i \in 1..Len(v[2]) |-> Str(v[2][i][1])])
      [] OTHER -> Raise(<<"object is not iterable">>)

similarities == {Str(<<"high">>), Str(<<"medium">>), Str(<<"low">>)}

\* lines 251-257
ValidItem(item) == IsObj(item) /\ Has(item, <<"lang">>) /\ Has(item, <<"original">>)

\* an item is taken as it came
WithOta_AsGiven(item) == item

WithOta(item) ==
    IF Has(item, <<"ota">>) THEN item
    ELSE Put(item, <<"ota">>, Get(item, <<"original">>))

validated_items(items) ==
    LET valid == SelectSeq(items, ValidItem)
    IN  [i \in 1..Len(valid) |-> WithOta(valid[i])]

\* lines 247-248
CheckSimilarity(group) ==
    IF Get(group, <<"similarity">>) \in similarities THEN group
    ELSE Put(group, <<"similarity">>, Str(<<"medium">>))

\* lines 265-268: the default of an absent confidence
confidence_map(similarity) ==
    CASE similarity = Str(<<"high">>) -> 80
      [] similarity = Str(<<"medium">>) -> 60
      [] similarity = Str(<<"low">>) -> 40
      [] OTHER -> 50

DefaultConfidence(group) ==
    IF Has(group, <<"confidence">>) THEN group
    ELSE Put(group, <<"confidence">>, Num(confidence_map(Get(group, <<"similarity">>))))

\* the group without the default of lines 271-272
DefaultRootAnalysis_Skip(group) == group

\* lines 271-272
DefaultRootAnalysis(group) ==
    IF Has(group, <<"root_analysis">>) THEN group
    ELSE Put(group, <<"root_analysis">>, Str(<<"Root analysis not provided">>))

required_group_fields == {<<"similarity">>, <<"items">>, <<"rationale">>}

\* _validate_group: the enriched group, or Null.  A group that is no dict,
\* or whose items cannot be iterated, ends in the except of line 275.
validate_group(group) ==
    IF ~IsObj(group) THEN Null
    ELSE IF \E field \in required_group_fields : ~Has(group, field) THEN Null
    ELSE
        LET items == Iterate(Get(group, <<"items">>))
            valid == validated_items(items[2])
        IN  IF Raised(items) THEN Null
            ELSE IF Len(valid) < 2 THEN Null
            ELSE DefaultRootAnalysis(DefaultConfidence(
                    Put(CheckSimilarity(group), <<"items">>, List(valid))))

\* a number as an operand of +: bool counts as 0 or 1
IsNumeric(v) == IsNum(v) \/ IsBool(v)
Numeric(v) == IF IsBool(v) THEN (IF v[2] THEN 100 ELSE 0) ELSE v[2]

\* the truthy lang values of the items of one group (lines 311-314)
GroupLangs(group) ==
    LET items == Get(group, <<"items">>)[2]
    IN  {Get(items[i], <<"lang">>) : i \in {j \in 1..Len(items) :
                                            Truthy(Get(items[j], <<"lang">>))}}

\* what the loop of lines 300-314 raises at one group, confidence first
GroupRaises(group) ==
    IF ~IsNumeric(Get(group, <<"confidence">>))
    THEN <<"unsupported operand type(s) for +=">>
    ELSE IF \E l \in GroupLangs(group) : ~Hashable(l) THEN <<"unhashable type">>
    ELSE <<>>

\* _calculate_alignment_statistics over validated groups
calculate_alignment_statistics(groups, original_candidates) ==
    LET n == Len(groups)
        sim(name) == Whole(Cardinality({i \in 1..n :
                            Get(groups[i], <<"similarity">>) = Str(<<name>>)}))
        size == [i \in 1..n |-> Len(Get(groups[i], <<"items">>)[2])]
        conf == [i \in 1..n |-> Numeric(Get(groups[i], <<"confidence">>))]
        total_words == SumOver(size, 1..n)
        bad == {i \in 1..n : GroupRaises(groups[i]) # <<>>}
        langs == UNION {GroupLangs(groups[i]) : i \in 1..n}
        stats(aligned, group_size, coverage, confidence, rate) ==
            Obj(<< <<<<"total_input_words">>, Whole(Len(original_candidates))>>,
                   <<<<"total_aligned_words">>, Whole(aligned)>>,
                   <<<<"groups_found">>, Whole(n)>>,
                   <<<<"average_group_size">>, group_size>>,
                   <<<<"similarity_distribution">>,
                     Obj(<< <<<<"high">>, sim("high")>>, <<<<"medium">>, sim("medium")>>,
                            <<<<"low">>, sim("low")>> >>)>>,
                   <<<<"language_coverage">>, <<"set", coverage>> >>,
                   <<<<"average_confidence">>, confidence>>,
                   <<<<"alignment_rate">>, rate>> >>)
    IN  IF n = 0 THEN Ok(stats(0, Num(0), {}, Num(0), Num(0)))
        ELSE IF bad # {} THEN Raise(GroupRaises(groups[Min(bad)]))
        ELSE Ok(stats(total_words, Quot(total_words, n),
                      {SetKey(l) : l \in langs},
                      Quot(SumOver(conf, 1..n), n),
                      IF Len(original_candidates) > 0
                      THEN Quot(total_words, Len(original_candidates))
                      ELSE Num(0)))

\* _generate_alignment_summary: a rendering of the statistics; the join of
\* line 346 wants strings
generate_alignment_summary(groups, statistics) ==
    IF Len(groups) = 0 THEN Ok(Str(<<"Hicbir kognat hizalamasi bulunamadi.">>))
    ELSE IF \E l \in Get(statistics, <<"language_coverage">>)[2] : ~IsStr(l)
    THEN Raise(<<"sequence item: expected str instance">>)
    ELSE Ok(<<"summary", statistics>>)

\* lines 229-234
ValidationError(msg, result) ==
    Obj(<< <<<<"groups">>, List(<<>>)>>,
           <<<<"error">>, Str(<<"Result validation error: ">> \o msg)>>,
           <<<<"original_result">>, result>> >>)

validated_groups(groups) ==
    SelectSeq([i \in 1..Len(groups) |-> validate_group(groups[i])],
              LAMBDA g : g # Null)

\* _validate_and_enrich_result.  The result is changed in place, so the
\* original_result of a failure holds what was assigned before the raise.
validate_and_enrich_result(result, original_candidates) ==
    LET \* lines 224-227
        Summarized(withStats, summary) ==
            IF Raised(summary) THEN ValidationError(summary[2], withStats)
            ELSE Put(withStats, <<"summary">>, summary[2])
        \* lines 219-224
        Counted(replaced, valid, statistics) ==
            IF Raised(statistics) THEN ValidationError(statistics[2], replaced)
            ELSE Summarized(Put(replaced, <<"statistics">>, statistics[2]),
                            generate_alignment_summary(valid, statistics[2]))
        \* lines 216-220
        Validated(withGroups, valid) ==
            Counted(Put(withGroups, <<"groups">>, List(valid)), valid,
                    calculate_alignment_statistics(valid, original_candidates))
        \* lines 207-214
        Iterated(withGroups, groups) ==
            IF Raised(groups) THEN ValidationError(groups[2], withGroups)
            ELSE Validated(withGroups, validated_groups(groups[2]))
        \* lines 205-210
        Checked(has) ==
            CASE Raised(has) -> ValidationError(has[2], result)
              [] ~IsObj(result) ->
                    ValidationError(<<"indices must be integers">>, result)
              [] OTHER ->
                    LET Keyed(withGroups) ==
                            Iterated(withGroups, Iterate(Get(withGroups, <<"groups">>)))
                    IN  Keyed(IF has[2] THEN result
                              ELSE Put(result, <<"groups">>, List(<<>>)))
    IN  Checked(In(<<"groups">>, result))

\* lines 116-125: a lone group is put in a groups array; len() of the items
\* wants a sized value, .get a dict
WrapSingleGroup(result, candidates) ==
    LET sim == In(<<"similarity">>, result)
        grp == In(<<"groups">>, result)
        items == IF Has(result, <<"items">>) THEN Get(result, <<"items">>) ELSE List(<<>>)
    IN  CASE Raised(sim) -> sim
          [] ~(sim[2] /\ ~grp[2]) -> Ok(result)
          [] ~IsObj(result) -> Raise(<<"object has no attribute 'get'">>)
          [] ~(IsList(items) \/ IsStr(items) \/ IsObj(items)) ->
                Raise(<<"object has no len()">>)
          [] OTHER ->
                Ok(Obj(<< <<<<"groups">>, List(<<result>>)>>,
                          <<<<"statistics">>,
                            Obj(<< <<<<"total_words">>, Whole(Len(candidates))>>,
                                   <<<<"groups_found">>, Whole(1)>>,
                                   <<<<"average_group_size">>, Whole(Len(items[2]))>> >>)>> >>))

\* lines 139-144
AlignError(msg, candidates) ==
    Obj(<< <<<<"groups">>, List(<<>>)>>,
           <<<<"error">>, Str(<<"Cognate alignment error: ">> \o msg)>>,
           <<<<"candidates">>, List(candidates)>> >>)

\* align_cognates, lines 91-144
align_cognates(cl, candidates_input, outcome) ==
    LET \* lines 127-137
        Wrapped(resp, candidates, wrapped) ==
            IF Raised(wrapped) THEN AlignError(wrapped[2], candidates)
            ELSE Put(validate_and_enrich_result(wrapped[2], candidates),
                     <<"llm_metadata">>, LlmMetadata(resp[2]))
        \* lines 113-125
        Parsed(resp, candidates, doc) ==
            IF doc[1] # "ok" THEN AlignError(ParseErrorText(doc[2]), candidates)
            ELSE Wrapped(resp, candidates, WrapSingleGroup(doc[2], candidates))
        \* lines 104-113
        Answer(candidates, resp) ==
            IF Raised(resp) THEN AlignError(resp[2], candidates)
            ELSE Parsed(resp, candidates,
                        parse_json_response(Get(resp[2], <<"content">>)[2]))
        \* lines 90-97
        Aligned(candidates) ==
            IF Len(candidates) = 0
            THEN Obj(<< <<<<"groups">>, List(<<>>)>>,
                        <<<<"error">>, Str(<<"No valid candidate words found.">>)>>,
                        <<<<"input">>, Str(candidates_input)>> >>)
            ELSE Answer(candidates, call_llm(cl, outcome))
    IN  Aligned(parse_candidates(candidates_input))

\* the requests align_cognates issues
AlignRequests(cl, candidates_input) ==
    IF Len(parse_candidates(candidates_input)) = 0 THEN 0 ELSE Requests(cl)

\* ------------------------------------------------------------ TransliteratorEngine
\* LLMInterface.validate_ota_characters: the allowed characters.  In the text
\* a transliteration handles every symbol is one character.
allowed_chars ==
    {"a", "b", "c", "d", "e", "k", "q", "x", "A", "K", "Q", "X",
     "schwa", "SCHWA", "a_uml", "A_UML", "n_tilde", "N_TILDE", "u_circ", "U_CIRC",
     "o_grave", "O_GRAVE", "0", "1", "2", SP, NL, ".", ",", ":", Quote,
     "{", "}", "[", "]"}

\* char in allowed_chars, for an element of what is iterated
Allowed(char) == IsStr(char) /\ Len(char[2]) = 1 /\ char[2][1] \in allowed_chars

\* validate_ota_characters: <<is_valid, invalid_chars>>; the text is iterated
\* and its elements are looked up in a set
validate_ota_characters(text) ==
    LET Checked(chars) ==
            LET bad == {i \in 1..Len(chars) : ~Allowed(chars[i])}
                first == {i \in bad : \A j \in bad :
                                j < i => SetKey(chars[j]) # SetKey(chars[i])}
                at(k) == CHOOSE i \in first : Cardinality({j \in first : j < i}) = k - 1
            IN  IF \E i \in 1..Len(chars) : ~Hashable(chars[i])
                THEN Raise(<<"unhashable type">>)
                ELSE Ok(<<first = {}, [k \in 1..Cardinality(first) |-> chars[at(k)]]>>)
        Iterated(it) == IF Raised(it) THEN it ELSE Checked(it[2])
    IN  Iterated(Iterate(text))

\* the new_letters of _count_new_letters, line 333
counted_letters ==
    <<"x", "X", "a_uml", "A_UML", "q", "Q", "n_tilde", "N_TILDE", "u_circ", "U_CIRC",
      "o_grave", "O_GRAVE">>

\* text.count(letter) of a string or a list
CountIn(text, letter) ==
    IF IsStr(text) THEN CountSub(text[2], <<letter>>)
    ELSE Cardinality({i \in 1..Len(text[2]) : text[2][i] = Str(<<letter>>)})

\* _count_new_letters: the letters that occur, with their counts
count_new_letters(text) ==
    IF ~(IsStr(text) \/ IsList(text)) THEN Raise(<<"object has no attribute 'count'">>)
    ELSE LET used == SelectSeq(counted_letters, LAMBDA l : CountIn(text, l) > 0)
         IN  Ok(Obj([i \in 1..Len(used) |-> <<<<used[i]>>, Whole(CountIn(text, used[i]))>>]))

\* lines 323-329
TransliterationError(msg, input_text, source_language) ==
    Obj(<< <<<<"ok">>, Bool(FALSE)>>,
           <<<<"error">>, Str(<<"Transliteration error: ">> \o msg)>>,
           <<<<"input_text">>, Str(input_text)>>,
           <<<<"source_language">>, Str(source_language)>> >>)

\* the condition of line 297
QualityControlled(result) ==
    /\ Has(result, <<"ok">>) /\ Truthy(Get(result, <<"ok">>))
    /\ Has(result, <<"output_text">>) /\ Truthy(Get(result, <<"output_text">>))

\* lines 302-304: the warning appended to the notes
WithWarning(result, invalid_chars) ==
    LET notes == IF Has(result, <<"notes">>) THEN Get(result, <<"notes">>) ELSE List(<<>>)
        warning == Str(<<"Warning: Invalid characters detected: ">>
                       \o Join([i \in 1..Len(invalid_chars) |-> invalid_chars[i][2]],
                               <<",", SP>>))
    IN  IF ~IsList(notes) THEN Raise(<<"object has no attribute 'append'">>)
        ELSE IF \E i \in 1..Len(invalid_chars) : ~IsStr(invalid_chars[i])
        THEN Raise(<<"sequence item: expected str instance">>)
        ELSE Ok(Put(result, <<"notes">>, List(Append(notes[2], warning))))

\* transliterate, lines 244-329
transliterate(cl, input_text, source_language, outcome) ==
    IF Strip(input_text) = <<>>
    THEN Obj(<< <<<<"ok">>, Bool(FALSE)>>, <<<<"error">>, Str(<<"Empty text">>)>> >>)
    ELSE
        LET Error(msg) == TransliterationError(msg, input_text, source_language)
            \* lines 307-321
            Finish(resp, noted, output_text, counts) ==
                IF Raised(noted) THEN Error(noted[2])
                ELSE IF Raised(counts) THEN Error(counts[2])
                ELSE Put(Put(noted[2], <<"statistics">>,
                             Obj(<< <<<<"input_length">>, Whole(Len(input_text))>>,
                                    <<<<"output_length">>, Whole(Len(output_text[2]))>>,
                                    <<<<"source_language">>, Str(source_language)>>,
                                    <<<<"new_letters_used">>, counts[2]>> >>)),
                         <<"llm_metadata">>, LlmMetadata(resp[2]))
            \* lines 301-304
            Validated(resp, result, output_text, checked) ==
                IF Raised(checked) THEN Error(checked[2])
                ELSE Finish(resp,
                            IF checked[2][1] THEN Ok(result)
                            ELSE WithWarning(result, checked[2][2]),
                            output_text, count_new_letters(output_text))
            \* lines 297-299
            Parsed(resp, doc) ==
                IF doc[1] # "ok" THEN Error(ParseErrorText(doc[2]))
                ELSE IF ~IsObj(doc[2]) THEN Error(<<"object has no attribute 'get'">>)
                ELSE IF ~QualityControlled(doc[2]) THEN doc[2]
                ELSE Validated(resp, doc[2], Get(doc[2], <<"output_text">>),
                               validate_ota_characters(Get(doc[2], <<"output_text">>)))
            \* lines 286-294
            Answer(resp) ==
                IF Raised(resp) THEN Error(resp[2])
                ELSE Parsed(resp, parse_json_response(Get(resp[2], <<"content">>)[2]))
        IN  Answer(call_llm(cl, outcome))

\* a request whatever the text is
TransliterateRequests_Unchecked(cl, input_text) == Requests(cl)

\* the requests transliterate issues
TransliterateRequests(cl, input_text) ==
    IF Strip(input_text) = <<>> THEN 0 ELSE Requests(cl)

\* ------------------------------------------------------------ PCEAnalyzer
\* new_ota_letters, line 19; a set, its letters are gone through in some order
new_ota_letters == <<"q", "x", "n_tilde", "schwa", "u_circ", "o_grave">>

\* _detect_new_letters: a dict, given in the order of new_ota_letters
detect_new_letters(text) ==
    LET Hits(l) == CountSub(Lower(text), Lower(<<l>>))
        found == SelectSeq(new_ota_letters, LAMBDA l : Hits(l) > 0)
    IN  Obj([i \in 1..Len(found) |-> <<<<found[i]>>, Whole(Hits(found[i]))>>])

\* a value as an operand of > with a number: <<"ok", hundredths>> or the
\* TypeError
Operand(v) ==
    IF IsNumeric(v) THEN Ok(Numeric(v))
    ELSE Raise(<<"'>' not supported between instances">>)

\* comparison.get(key, 0)
GetOrZero(comparison, key) ==
    IF Has(comparison, key) THEN Get(comparison, key) ELSE Num(0)

\* _rate_effectiveness
rate_effectiveness(improvement) ==
    IF improvement > 1800 THEN <<"Mukemmel">>
    ELSE IF improvement > 1500 THEN <<"Cok Iyi">>
    ELSE IF improvement > 1200 THEN <<"Iyi">>
    ELSE IF improvement > 800 THEN <<"Orta">>
    ELSE <<"Dusuk">>

\* _generate_recommendations on the two improvements
generate_recommendations(weighted_imp, log_imp) ==
    (IF weighted_imp > 1500
     THEN <<Str(<<"CTA alfabesi fonetik temsilde onemli iyilestirme saglamis">>),
            Str(<<"Akademik calismalarda CTA kullanimi onerilir">>)>>
     ELSE <<>>)
    \o (IF log_imp > 1000
        THEN <<Str(<<"Buyuk veri setlerinde tutarli performans gosteriyor">>),
               Str(<<"Olceklenebilir uygulamalar icin uygun">>)>>
        ELSE <<>>)
    \o (IF weighted_imp < 1000
        THEN <<Str(<<"Daha fazla fonetik optimizasyon gerekebilir">>),
               Str(<<"Ek CTA harflerinin kullanimi artirilabilir">>)>>
        ELSE <<>>)

\* lines 174-186: the assessment of a comparison, or what the block raises
Assessment(comparison) ==
    LET Rated(w, l) ==
            IF Raised(w) THEN w
            ELSE IF Raised(l) THEN l
            ELSE Ok(Obj(<<
                <<<<"improvement_category">>,
                  Str(IF w[2] > 1500 THEN <<"Yuksek Iyilestirme">>
                      ELSE IF w[2] > 1000 THEN <<"Orta Iyilestirme">>
                      ELSE <<"Dusuk Iyilestirme">>)>>,
                <<<<"effectiveness_rating">>, Str(rate_effectiveness(w[2]))>>,
                <<<<"recommendations">>, List(generate_recommendations(w[2], l[2]))>> >>))
    IN  IF ~IsObj(comparison) THEN Raise(<<"object has no attribute 'get'">>)
        ELSE Rated(Operand(GetOrZero(comparison, <<"weighted_improvement">>)),
                   Operand(GetOrZero(comparison, <<"logarithmic_improvement">>)))

\* _enrich_pce_result on a dict: the comparison of the document is kept as
\* it came; an exception of the block is recorded in enrichment_error
enrich_pce_result(result, original_text, ota_text, dataset_name) ==
    LET Assessed(withMeta, a) ==
            IF Raised(a) THEN Put(withMeta, <<"enrichment_error">>, Str(a[2]))
            ELSE Put(withMeta, <<"assessment">>, a[2])
        Enriched(withMeta) ==
            IF ~Has(withMeta, <<"comparison">>) THEN withMeta
            ELSE Assessed(withMeta, Assessment(Get(withMeta, <<"comparison">>)))
    IN  Enriched(Put(result, <<"metadata">>,
            Obj(<< <<<<"dataset_name">>, Str(dataset_name)>>,
                   <<<<"original_length">>, Whole(Len(original_text))>>,
                   <<<<"ota_length">>, Whole(Len(ota_text))>>,
                   <<<<"analysis_timestamp">>, Num(0)>>,
                   <<<<"new_letters_detected">>, detect_new_letters(ota_text)>> >>)))

\* text[:100] + "..." of lines 152-153
Truncated(text) == IF Len(text) > 100 THEN SubSeq(text, 1, 100) \o <<"...">> ELSE text

\* lines 149-154
PceError(msg, original_text, ota_text) ==
    Obj(<< <<<<"error">>, Str(<<"PCE analizi hatasi: ">> \o msg)>>,
           <<<<"original_text">>, Str(Truncated(original_text))>>,
           <<<<"ota_text">>, Str(Truncated(ota_text))>> >>)

\* analyze_pce, lines 91-154.  A document that is no dict raises at line 161
\* and again in the handler of line 191, which the except of line 149 takes.
analyze_pce(cl, original_text, ota_text, dataset_name, outcome) ==
    IF Strip(original_text) = <<>> \/ Strip(ota_text) = <<>>
    THEN Obj(<< <<<<"error">>,
                  Str(<<"Empty text - both original and CTA text required">>)>> >>)
    ELSE
        LET Error(msg) == PceError(msg, original_text, ota_text)
            Parsed(resp, doc) ==
                IF doc[1] # "ok" THEN Error(ParseErrorText(doc[2]))
                ELSE IF ~IsObj(doc[2])
                THEN Error(<<"object does not support item assignment">>)
                ELSE Put(enrich_pce_result(doc[2], original_text, ota_text, dataset_name),
                         <<"llm_metadata">>, LlmMetadata(resp[2]))
            Answer(resp) ==
                IF Raised(resp) THEN Error(resp[2])
                ELSE Parsed(resp, parse_json_response(Get(resp[2], <<"content">>)[2]))
        IN  Answer(call_llm(cl, outcome))

\* the requests analyze_pce issues
PceRequests(cl, original_text, ota_text) ==
    IF Strip(original_text) = <<>> \/ Strip(ota_text) = <<>> THEN 0 ELSE Requests(cl)

\* ------------------------------------------------------------ response texts
\* the literal of a number

RECURSIVE Ser(_, _)
RECURSIVE SerAll(_, _, _, _)

\* the texts of the elements or members xs, joined by a comma and brk
SerAll(xs, isObj, k, brk) ==
    IF Len(xs) = 0 THEN <<>>
    ELSE
        LET x == Head(xs)
            one == IF isObj
                   THEN <<Quote>> \o x[1] \o <<Quote, ":">> \o Ser(x[2], k)
                   ELSE Ser(x, k)
        IN  IF Len(xs) = 1 THEN one
            ELSE one \o <<",">> \o brk \o SerAll(Tail(xs), isObj, k, brk)

\* the JSON text of value v; the containers of the outer k nesting levels are
\* laid out one member per line, the ones below on a single line
Ser(v, k) ==
    LET brk == IF k > 0 THEN <<NL>> ELSE <<>>
        kk == IF k > 0 THEN k - 1 ELSE 0
    IN  IF IsNum(v) THEN <<NumText(v[2])>>
        ELSE IF IsStr(v) THEN <<Quote>> \o v[2] \o <<Quote>>
        ELSE IF IsBool(v) THEN <<IF v[2] THEN "true" ELSE "false">>
        ELSE IF IsList(v) THEN
            IF Len(v[2]) = 0 THEN <<"[", "]">>
            ELSE <<"[">> \o brk \o SerAll(v[2], FALSE, kk, brk) \o brk \o <<"]">>
        ELSE IF IsObj(v) THEN
            IF Len(v[2]) = 0 THEN <<"{", "}">>
            ELSE <<"{">> \o brk \o SerAll(v[2], TRUE, kk, brk) \o brk \o <<"}">>
        ELSE <<"null">>

\* nesting depth of the documents the extractor is tried on
MaxDepth == 3

Leaves == {Num(100)}

\* the values of nesting depth at most n
RECURSIVE Nested(_)
Nested(n) ==
    IF n = 0 THEN Leaves
    ELSE LET below == Nested(n - 1)
         IN  Leaves
             \cup {Obj(<< <<<<"a">>, d>> >>) : d \in below}
             \cup {List(<<d>>) : d \in below}
             \cup {List(<<d, Obj(<< <<<<"b">>, Num(200)>> >>)>>) : d \in below}

\* the documents: objects and arrays, and two with a string that holds a
\* label or a brace
Documents ==
    {d \in Nested(MaxDepth) : IsObj(d) \/ IsList(d)}
    \cup {Obj(<< <<<<"a">>, Str(<<OutputLabel, SP, "x">>)>> >>),
          Obj(<< <<<<"a">>, Str(<<"}">>)>> >>)}

\* what may surround the document in a response: <<text before, text after>>
Wrappers ==
    { <<<<>>, <<>>>>,
      <<<<"Here", NL>>, <<>>>>,
      <<<<"Here", SP>>, <<>>>>,
      <<<<Fence, JsonTag, NL>>, <<NL, Fence>>>>,
      <<<<"Here", NL, Fence, JsonTag, NL>>, <<NL, Fence>>>>,
      <<<<Fence, NL>>, <<NL, Fence>>>>,
      <<<<OutputLabel, SP>>, <<>>>>,
      <<<<OutputTextLabel, SP>>, <<>>>>,
      <<<<>>, <<NL, "done">>>>,
      <<<<>>, <<SP, "done">>>> }

\* the layouts: on one line, the outer container over several lines, every
\* container over several lines
Layouts == {0, 1, MaxDepth}

\* responses that hold no object and no array
NoDocument == <<"none", 0>>

Junk ==
    { <<>>, <<"42">>, <<Quote, "x", Quote>>, <<"true">>, <<"null">>,
      <<"Here">>, <<"Here", SP, "42">>,
      <<"{", Quote, "a", Quote, ":", "1">>,
      <<"[", "1", ",">>,
      <<"{", Quote, "a", Quote, "}">>,
      <<OutputLabel, SP, "42">>,
      <<Fence, JsonTag, NL, "1", NL, Fence>> }

\* <<embedded document, response text>>
ExtractorInputs ==
    {<<d, w[1] \o Ser(d, k) \o w[2]>> : d \in Documents, k \in Layouts, w \in Wrappers}
    \cup {<<NoDocument, t>> : t \in Junk}

\* ------------------------------------------------------------ records of a response
\* the mapping d without key k
Without(d, k) == Obj(SelectSeq(d[2], LAMBDA p : p[1] # k))

\* a risk record as the system prompt asks for it
RiskRecord(letter) ==
    Obj(<< <<<<"letter">>, Str(<<letter>>)>>,
           <<<<"possible_confusions">>, List(<<Str(<<"a">>)>>)>>,
           <<<<"languages">>, List(<<Str(<<"tr">>)>>)>>,
           <<<<"examples">>, List(<<Str(<<"abc">>)>>)>>,
           <<<<"confidence">>, Num(70)>>,
           <<<<"severity">>, Str(<<"high">>)>>,
           <<<<"context">>, Str(<<"abc">>)>> >>)

\* the ways a record of the service departs from it: <<field, value>>
RiskDeviations ==
    { <<<<"letter">>, Num(100)>>,
      <<<<"possible_confusions">>, Str(<<"a">>)>>,
      <<<<"languages">>, Str(<<"tr">>)>>,
      <<<<"languages">>, List(<<List(<<Str(<<"tr">>)>>)>>)>>,
      <<<<"examples">>, Num(50)>>,
      <<<<"confidence">>, Str(<<"0.95">>)>>,
      <<<<"confidence">>, Num(140)>>,
      <<<<"confidence">>, Num(-20)>>,
      <<<<"confidence">>, Str(<<"abc">>)>>,
      <<<<"confidence">>, Null>>,
      <<<<"severity">>, Str(<<"abc">>)>>,
      <<<<"severity">>, Str(<<"low">>)>> }

RiskFields == required_risk_fields \cup {<<"severity">>, <<"context">>}

RiskElements ==
    {RiskRecord("x"), RiskRecord("q"), Num(4200)}
    \cup {Without(RiskRecord("x"), f) : f \in RiskFields}
    \cup {Put(RiskRecord("x"), d[1], d[2]) : d \in RiskDeviations}

\* the items of a cognate group
ItemTr ==
    Obj(<< <<<<"lang">>, Str(<<"tr">>)>>, <<<<"original">>, Str(<<"sehir">>)>>,
           <<<<"ota">>, Str(<<"sehir">>)>> >>)

ItemUz == Obj(<< <<<<"lang">>, Str(<<"uz">>)>>, <<<<"original">>, Str(<<"sahar">>)>> >>)

GroupRecord(similarity) ==
    Obj(<< <<<<"similarity">>, Str(<<similarity>>)>>,
           <<<<"items">>, List(<<ItemTr, ItemUz>>)>>,
           <<<<"rationale">>, Str(<<"abc">>)>>,
           <<<<"confidence">>, Num(70)>>,
           <<<<"root_analysis">>, Str(<<"abc">>)>> >>)

GroupDeviations ==
    { <<<<"similarity">>, Num(100)>>,
      <<<<"confidence">>, Str(<<"0.95">>)>>,
      <<<<"confidence">>, Num(140)>>,
      <<<<"confidence">>, Num(-20)>>,
      <<<<"confidence">>, Str(<<"abc">>)>>,
      <<<<"items">>, Null>>,
      <<<<"items">>, List(<<ItemTr>>)>>,
      <<<<"items">>, List(<<ItemTr, Without(ItemUz, <<"lang">>)>>)>>,
      <<<<"items">>, List(<<ItemTr, Num(100), ItemUz>>)>>,
      <<<<"items">>, List(<<ItemTr, Put(ItemUz, <<"lang">>, Num(100))>>)>>,
      <<<<"items">>, List(<<ItemTr, Put(ItemUz, <<"lang">>, List(<<Str(<<"uz">>)>>))>>)>> }

GroupFields == required_group_fields \cup {<<"confidence">>, <<"root_analysis">>}

Tiers == {"high", "medium", "low", "abc"}

GroupElements ==
    {Num(4200)}
    \cup {GroupRecord(t) : t \in Tiers}
    \cup {Without(GroupRecord("high"), f) : f \in GroupFields}
    \cup {Without(Without(GroupRecord(t), <<"confidence">>), <<"root_analysis">>) :
            t \in Tiers}
    \cup {Put(GroupRecord("high"), d[1], d[2]) : d \in GroupDeviations}

\* the collections of at most n elements of S
RECURSIVE Collections(_, _)
Collections(S, n) ==
    IF n = 0 THEN {<<>>}
    ELSE LET shorter == Collections(S, n - 1)
         IN  shorter \cup {Append(c, e) : c \in {x \in shorter : Len(x) = n - 1}, e \in S}

MaxRecords == 2

\* the texts of at most n characters over alphabet A
RECURSIVE Texts(_, _)
Texts(A, n) ==
    IF n = 0 THEN {<<>>}
    ELSE LET shorter == Texts(A, n - 1)
         IN  shorter \cup {Append(t, c) : t \in {x \in shorter : Len(x) = n - 1}, c \in A}

MaxTextLen == 2

\* the CTA texts given to analyze_risks
RiskTexts == Texts({"a", "x", "X", SP}, MaxTextLen)

\* the documents the service answers a risk request with
RiskDocuments ==
    {e \in RiskElements : IsObj(e)}
    \cup {List(c) : c \in Collections(RiskElements, 1)}
    \cup {List(<<RiskRecord("x")>> \o c) : c \in Collections(RiskElements, MaxRecords - 1)}
    \cup {Num(4200), Str(<<"a", "x">>)}

\* what the service does with a request: <<document, outcome>>
RiskOutcomes ==
    {<<d, Content(Ser(d, 0))>> : d \in RiskDocuments}
    \cup {<<List(<<RiskRecord("x")>>),
            Content(<<Fence, JsonTag, NL>> \o Ser(List(<<RiskRecord("x")>>), 0)
                    \o <<NL, Fence>>)>>,
          <<NoDocument, Content(<<"abc">>)>>,
          <<NoDocument, Failure>>}

\* the candidate lists given to align_cognates
CandidateInputs ==
    { <<>>,
      <<SP, NL>>,
      <<"abc">>,
      <<"tr", Colon, "sehir">>,
      <<"tr", Colon, "sehir", NL, "uz", Colon, "sahar">>,
      <<"TR", Colon, SP, "sehir", NL, "abc", NL, "uz", Colon, "sahar">> }

\* the documents the service answers a cognate request with
CognateDocuments ==
    {e \in GroupElements : IsObj(e)}
    \cup {List(c) : c \in Collections(GroupElements, 1)}
    \cup {Obj(<< <<<<"groups">>, List(c)>> >>) : c \in Collections(GroupElements, 1)}
    \cup {Obj(<< <<<<"groups">>, List(<<GroupRecord("low")>> \o c)>> >>) :
            c \in Collections(GroupElements, MaxRecords - 1)}
    \cup {Obj(<< <<<<"groups">>, Num(4200)>> >>), Num(4200),
          Obj(<< <<<<"groups">>, List(<<>>)>>, <<<<"error">>, Str(<<"abc">>)>> >>)}

CognateOutcomes ==
    {<<d, Content(Ser(d, 0))>> : d \in CognateDocuments}
    \cup {<<NoDocument, Content(<<"abc">>)>>, <<NoDocument, Failure>>}

\* the texts given to transliterate, and the source languages
TransliterationTexts == Texts({"a", SP}, MaxTextLen)
SourceLanguages == {<<"Turkish">>, <<"Uzbek">>}

\* a transliteration document with these members
Transliteration(ok, output_text) ==
    Obj(<< <<<<"ok">>, ok>>, <<<<"output_text">>, output_text>> >>)

\* the documents the service answers a transliteration request with
TransliterationDocuments ==
    {Transliteration(Bool(TRUE), t) :
        t \in {Str(<<"a", "x">>), Str(<<"a", "#">>), Str(<<>>), Num(4200),
               List(<<Str(<<"a">>)>>), List(<<Num(100)>>),
               Obj(<< <<<<"a">>, Num(100)>> >>)}}
    \cup {Put(Transliteration(Bool(TRUE), Str(<<"a", "#">>)), <<"notes">>, n) :
            n \in {List(<<Str(<<"abc">>)>>), Str(<<"abc">>)}}
    \cup {Transliteration(Bool(FALSE), Str(<<"a">>)),
          Transliteration(Str(<<"abc">>), Str(<<"a">>)),
          Obj(<< <<<<"ok">>, Bool(TRUE)>> >>),
          Obj(<< <<<<"ok">>, Bool(FALSE)>> >>),
          Obj(<< <<<<"ok">>, Bool(FALSE)>>, <<<<"error">>, Str(<<"abc">>)>> >>),
          Obj(<< <<<<"output_text">>, Str(<<"a">>)>> >>),
          Obj(<<>>),
          List(<<Transliteration(Bool(TRUE), Str(<<"a">>))>>),
          Num(4200)}

TransliterationOutcomes ==
    {<<d, Content(Ser(d, 0))>> : d \in TransliterationDocuments}
    \cup {<<NoDocument, Content(<<"abc">>)>>, <<NoDocument, Failure>>}

\* the pairs of texts given to analyze_pce
PceTexts == Texts({"x", SP}, MaxTextLen) \X Texts({"x", SP}, MaxTextLen)

\* the scores of one text
Scores(score) ==
    Obj(<< <<<<"weighted_pce">>, score>>, <<<<"logarithmic_pce">>, score>> >>)

\* a PCE document: the scores of the two texts and the improvements the
\* service reports
PceDocument(original, ota, weighted, logarithmic) ==
    Obj(<< <<<<"original_analysis">>, Scores(original)>>,
           <<<<"ota_analysis">>, Scores(ota)>>,
           <<<<"comparison">>,
             Obj(<< <<<<"weighted_improvement">>, weighted>>,
                    <<<<"logarithmic_improvement">>, logarithmic>> >>)>> >>)

\* the documents the service answers a PCE request with
PceDocuments ==
    {PceDocument(original, Num(11900), weighted, logarithmic) :
        original \in {Num(0), Num(10000)},
        weighted \in {Num(0), Num(1900), Num(2500), Str(<<"abc">>)},
        logarithmic \in {Num(1900), Num(2500)}}
    \cup {Without(PceDocument(Num(10000), Num(11900), Num(1900), Num(1900)),
                  <<"comparison">>),
          Put(PceDocument(Num(10000), Num(11900), Num(1900), Num(1900)),
              <<"comparison">>, Num(4200)),
          Put(PceDocument(Num(10000), Num(11900), Num(1900), Num(1900)),
              <<"comparison">>, Obj(<<>>)),
          List(<<PceDocument(Num(10000), Num(11900), Num(1900), Num(1900))>>),
          Num(4200)}

PceOutcomes ==
    {<<d, Content(Ser(d, 0))>> : d \in PceDocuments}
    \cup {<<NoDocument, Content(<<"abc">>)>>, <<NoDocument, Failure>>}

\* ------------------------------------------------------------ state
VARIABLES
    pc,         \* position of the operation under way
    raw,        \* the response text given to the extractor
    embedded,   \* the document the response text was written around
    parsed,     \* what parse_json_response returned or raised
    client,     \* LLMInterface.client is set (a credential is configured)
    task,       \* the task entry point that ran
    input,      \* the text the task was given
    response,   \* what the generation service answered to this task
    calls,      \* requests this task made to the generation service
    result,     \* the result the task returned
    records,    \* the records given to a validation loop
    validated   \* the records the validation loop kept

\* the state of the application (main.py)
VARIABLES
    api_key,    \* LLMInterface.api_key
    llm_client, \* the key LLMInterface.client was made with
    model,      \* LLMInterface.model
    settings,   \* how far save_settings has come
    threads,    \* the worker threads of the run_* handlers
    requests,   \* the requests sent: <<worker, key, model>>
    results,    \* CTAEvaluationApp.results, one slot per analysis kind
    ui_queue,   \* the callbacks given to root.after, oldest first
    shown       \* the result each panel displays

coreVars ==
    <<pc, raw, embedded, parsed, client, task, input, response, calls, result,
      records, validated>>

appVars ==
    <<api_key, llm_client, model, settings, threads, requests, results, ui_queue,
      shown>>

vars == <<coreVars, appVars>>

\* the analysis kinds, the keys of CTAEvaluationApp.results (main.py:90-95)
Kinds == {"transliteration", "risk_analysis", "cognate_alignment", "pce_analysis"}

MaxRuns == 2

Workers == 1..MaxRuns

NoKey == "none"
Nothing == <<"nothing">>

\* a thread that was not started
NotStarted ==
    [pc |-> "idle", kind |-> "none", launched |-> <<NoKey, NoKey>>, after |-> {},
     key |-> NoKey, outcome |-> "none"]

\* the application as __init__ leaves it, no credential configured
NoApp ==
    /\ api_key = NoKey
    /\ llm_client = NoKey
    /\ model = "M1"
    /\ settings = "idle"
    /\ threads = [w \in Workers |-> NotStarted]
    /\ requests = {}
    /\ results = [k \in Kinds |-> Nothing]
    /\ ui_queue = <<>>
    /\ shown = [k \in Kinds |-> Nothing]

extractorVars == <<raw, embedded, parsed>>
taskVars == <<client, task, input, response, calls, result>>
validatorVars == <<records, validated>>

NotYet == <<"none", 0>>

\* ------------------------------------------------------------ the extractor
InitExtract ==
    /\ pc = "extract"
    /\ \E x \in ExtractorInputs : embedded = x[1] /\ raw = x[2]
    /\ parsed = NotYet
    /\ client = FALSE
    /\ task = "none"
    /\ input = <<>>
    /\ response = NotYet
    /\ calls = 0
    /\ result = NotYet
    /\ records = <<>>
    /\ validated = <<>>
    /\ NoApp

Extract ==
    /\ pc = "extract"
    /\ parsed' = parse_json_response(raw)
    /\ pc' = "extracted"
    /\ UNCHANGED <<raw, embedded>>
    /\ UNCHANGED taskVars
    /\ UNCHANGED validatorVars
    /\ UNCHANGED appVars

NextExtract == Extract

SpecExtract == InitExtract /\ [][NextExtract]_vars

\* ------------------------------------------------------------ the validation loops
ValidatorTexts == {<<"a", "x", "X">>, <<"q">>}

InitValidate ==
    /\ pc = "validate"
    /\ task \in {"risk", "cognate"}
    /\ IF task = "risk"
       THEN /\ input \in ValidatorTexts
            /\ records \in Collections(RiskElements, MaxRecords)
       ELSE /\ input = <<>>
            /\ records \in Collections(GroupElements, MaxRecords)
    /\ validated = <<>>
    /\ raw = <<>>
    /\ embedded = NoDocument
    /\ parsed = NotYet
    /\ client = FALSE
    /\ response = NotYet
    /\ calls = 0
    /\ result = NotYet
    /\ NoApp

\* the loop of analyze_risks, lines 129-133
ValidateRisks ==
    /\ pc = "validate"
    /\ task = "risk"
    /\ validated' = validated_risks(records, input)
    /\ pc' = "validated"
    /\ UNCHANGED <<task, input, records, raw, embedded, parsed, client, response,
                   calls, result>>
    /\ UNCHANGED appVars

\* the loop of _validate_and_enrich_result, lines 210-214
ValidateGroups ==
    /\ pc = "validate"
    /\ task = "cognate"
    /\ validated' = validated_groups(records)
    /\ pc' = "validated"
    /\ UNCHANGED <<task, input, records, raw, embedded, parsed, client, response,
                   calls, result>>
    /\ UNCHANGED appVars

NextValidate == ValidateRisks \/ ValidateGroups

SpecValidate == InitValidate /\ [][NextValidate]_vars

\* ------------------------------------------------------------ the statistics
MaxCounted == 5

\* the letters of the risk records that are counted
CountedLetters == {"x", "#", "X", "a"}

\* the records the risk statistics are checked on: complete records of four
\* letters, and a record validation keeps on which the statistics raise
CountedElements ==
    {RiskRecord(l) : l \in CountedLetters}
    \cup {Put(RiskRecord("x"), <<"languages">>, List(<<List(<<Str(<<"tr">>)>>)>>))}

\* the groups the alignment statistics are checked on: groups of two and of
\* three items, with and without a confidence, with a confidence that is no
\* number, and elements validation drops
CountedGroups ==
    {GroupRecord("high"), GroupRecord("abc"),
     Put(GroupRecord("low"), <<"items">>, List(<<ItemTr, ItemUz, ItemTr>>)),
     Without(GroupRecord("medium"), <<"confidence">>),
     Put(GroupRecord("high"), <<"confidence">>, Str(<<"0.95">>)),
     Put(GroupRecord("high"), <<"confidence">>, Str(<<"abc">>)),
     Put(GroupRecord("high"), <<"items">>, List(<<ItemTr>>)),
     Num(4200)}

\* the candidate lists the alignment statistics are checked on
CountedInputs ==
    { <<>>,
      <<"tr", Colon, "sehir">>,
      <<"tr", Colon, "sehir", NL, "uz", Colon, "sahar">>,
      <<"tr", Colon, "sehir", NL, "uz", Colon, "sahar", NL, "az", Colon, "seher">> }

InitStatistics ==
    /\ pc = "validate"
    /\ task \in {"risk", "cognate"}
    /\ IF task = "risk"
       THEN /\ input = <<"a", "x", "X", "#">>
            /\ records \in Collections(CountedElements, MaxCounted)
       ELSE /\ input \in CountedInputs
            /\ records \in Collections(CountedGroups, MaxRecords)
    /\ validated = <<>>
    /\ raw = <<>>
    /\ embedded = NoDocument
    /\ parsed = NotYet
    /\ client = FALSE
    /\ response = NotYet
    /\ calls = 0
    /\ result = NotYet
    /\ NoApp

\* _calculate_risk_statistics on the validated records (analyze_risks, line
\* 136): the statistics, or what it raised.  The function reads its
\* arguments with get and len and writes to its own stats only; it can be
\* called again on the same collection.
CalculateRiskStatistics ==
    /\ pc \in {"validated", "counted"}
    /\ task = "risk"
    /\ result' = calculate_risk_statistics(validated, input)
    /\ pc' = IF pc = "validated" THEN "counted" ELSE "recounted"
    /\ UNCHANGED <<task, input, records, validated, raw, embedded, parsed, client,
                   response, calls>>
    /\ UNCHANGED appVars

\* a _calculate_alignment_statistics that takes the items it has counted
\* out of the groups it was given
CalculateAlignmentStatistics_Mutating ==
    /\ pc \in {"validated", "counted"}
    /\ task = "cognate"
    /\ result' = calculate_alignment_statistics(validated, parse_candidates(input))
    /\ validated' = [i \in 1..Len(validated) |->
                        Put(validated[i], <<"items">>, List(<<>>))]
    /\ pc' = IF pc = "validated" THEN "counted" ELSE "recounted"
    /\ UNCHANGED <<task, input, records, raw, embedded, parsed, client,
                   response, calls>>
    /\ UNCHANGED appVars

\* _calculate_alignment_statistics on the validated groups and the parsed
\* candidates (_validate_and_enrich_result, line 219); it reads its
\* arguments only and can be called again on the same collection
CalculateAlignmentStatistics ==
    /\ pc \in {"validated", "counted"}
    /\ task = "cognate"
    /\ result' = calculate_alignment_statistics(validated, parse_candidates(input))
    /\ pc' = IF pc = "validated" THEN "counted" ELSE "recounted"
    /\ UNCHANGED <<task, input, records, validated, raw, embedded, parsed, client,
                   response, calls>>
    /\ UNCHANGED appVars

NextStatistics ==
    \/ ValidateRisks
    \/ ValidateGroups
    \/ CalculateRiskStatistics
    \/ CalculateAlignmentStatistics

SpecStatistics == InitStatistics /\ [][NextStatistics]_vars

\* ------------------------------------------------------------ the tasks
Init ==
    /\ pc = "idle"
    /\ client \in BOOLEAN
    /\ task = "none"
    /\ input = <<>>
    /\ response = NotYet
    /\ embedded = NoDocument
    /\ calls = 0
    /\ result = NotYet
    /\ raw = <<>>
    /\ parsed = NotYet
    /\ records = <<>>
    /\ validated = <<>>
    /\ NoApp

\* RiskAnalyzer.analyze_risks on a text, the service answering with an outcome
AnalyzeRisks ==
    /\ pc = "idle"
    /\ \E text \in RiskTexts, o \in RiskOutcomes :
        LET n == RiskRequests(client, text)
        IN  /\ task' = "risk"
            /\ input' = text
            /\ calls' = n
            /\ response' = IF n = 0 THEN NotYet ELSE o[2]
            /\ embedded' = IF n = 0 THEN NoDocument ELSE o[1]
            /\ result' = analyze_risks(client, text, o[2])
    /\ pc' = "done"
    /\ UNCHANGED <<client, raw, parsed, records, validated>>
    /\ UNCHANGED appVars

\* CognateAligner.align_cognates on a candidate list
AlignCognates ==
    /\ pc = "idle"
    /\ \E candidates_input \in CandidateInputs, o \in CognateOutcomes :
        LET n == AlignRequests(client, candidates_input)
        IN  /\ task' = "cognate"
            /\ input' = candidates_input
            /\ calls' = n
            /\ response' = IF n = 0 THEN NotYet ELSE o[2]
            /\ embedded' = IF n = 0 THEN NoDocument ELSE o[1]
            /\ result' = align_cognates(client, candidates_input, o[2])
    /\ pc' = "done"
    /\ UNCHANGED <<client, raw, parsed, records, validated>>
    /\ UNCHANGED appVars

\* TransliteratorEngine.transliterate on a text of a source language
Transliterate ==
    /\ pc = "idle"
    /\ \E text \in TransliterationTexts, language \in SourceLanguages,
          o \in TransliterationOutcomes :
        LET n == TransliterateRequests(client, text)
        IN  /\ task' = "transliterate"
            /\ input' = text
            /\ calls' = n
            /\ response' = IF n = 0 THEN NotYet ELSE o[2]
            /\ embedded' = IF n = 0 THEN NoDocument ELSE o[1]
            /\ result' = transliterate(client, text, language, o[2])
    /\ pc' = "done"
    /\ UNCHANGED <<client, raw, parsed, records, validated>>
    /\ UNCHANGED appVars

\* PCEAnalyzer.analyze_pce on an original text and its CTA text; the input
\* is the pair of them
AnalyzePce ==
    /\ pc = "idle"
    /\ \E texts \in PceTexts, o \in PceOutcomes :
        LET n == PceRequests(client, texts[1], texts[2])
        IN  /\ task' = "pce"
            /\ input' = texts
            /\ calls' = n
            /\ response' = IF n = 0 THEN NotYet ELSE o[2]
            /\ embedded' = IF n = 0 THEN NoDocument ELSE o[1]
            /\ result' = analyze_pce(client, texts[1], texts[2], <<"Custom">>, o[2])
    /\ pc' = "done"
    /\ UNCHANGED <<client, raw, parsed, records, validated>>
    /\ UNCHANGED appVars

\* the caller has taken the result; the next task starts from a fresh call
Return ==
    /\ pc = "done"
    /\ pc' = "idle"
    /\ task' = "none"
    /\ input' = <<>>
    /\ response' = NotYet
    /\ embedded' = NoDocument
    /\ calls' = 0
    /\ result' = NotYet
    /\ UNCHANGED <<client, raw, parsed, records, validated>>
    /\ UNCHANGED appVars

Next == AnalyzeRisks \/ AlignCognates \/ Transliterate \/ AnalyzePce \/ Return

Spec == Init /\ [][Next]_vars

\* ------------------------------------------------------------ the application
\* the main thread is in no handler
MainThreadFree == settings \in {"idle", "saved"}

Enqueued(w, outcome) == Append(ui_queue, <<threads[w].kind, <<w, outcome>>>>)

InitApp ==
    /\ pc = "app"
    /\ raw = <<>>
    /\ embedded = NoDocument
    /\ parsed = NotYet
    /\ client = FALSE
    /\ task = "none"
    /\ input = <<>>
    /\ response = NotYet
    /\ calls = 0
    /\ result = NotYet
    /\ records = <<>>
    /\ validated = <<>>
    /\ api_key \in {NoKey, "K1"}
    /\ llm_client = api_key
    /\ model = "M1"
    /\ settings = "idle"
    /\ threads = [w \in Workers |-> NotStarted]
    /\ requests = {}
    /\ results = [k \in Kinds |-> Nothing]
    /\ ui_queue = <<>>
    /\ shown = [k \in Kinds |-> Nothing]

\* run_transliteration, run_risk_analysis, run_cognate_alignment,
\* run_pce_analysis with a text: the handler starts its worker thread
Run ==
    /\ MainThreadFree
    /\ \E w \in Workers, kind \in Kinds :
        /\ threads[w].pc = "idle"
        /\ \A v \in 1..(w - 1) : threads[v].pc # "idle"
        /\ threads' = [threads EXCEPT ![w] =
                [pc |-> "check", kind |-> kind, launched |-> <<llm_client, model>>,
                 after |-> {v \in Workers : threads[v].pc = "done"},
                 key |-> NoKey, outcome |-> "none"]]
    /\ UNCHANGED <<api_key, llm_client, model, settings, requests, results, ui_queue,
                   shown>>
    /\ UNCHANGED coreVars

\* the worker's check of llm_interface.api_key: without a key it hands an
\* error result to the UI and returns
CheckApiKey ==
    /\ \E w \in Workers :
        /\ threads[w].pc = "check"
        /\ IF api_key = NoKey
           THEN /\ threads' = [threads EXCEPT ![w].pc = "done", ![w].outcome = "no_key"]
                /\ ui_queue' = Enqueued(w, "no_key")
           ELSE /\ threads' = [threads EXCEPT ![w].pc = "client"]
                /\ UNCHANGED ui_queue
    /\ UNCHANGED <<api_key, llm_client, model, settings, requests, results, shown>>
    /\ UNCHANGED coreVars

\* call_llm reads self.client: without one it raises and the task returns
\* its failure result
ReadClient ==
    /\ \E w \in Workers :
        /\ threads[w].pc = "client"
        /\ threads' = IF llm_client = NoKey
                      THEN [threads EXCEPT ![w].pc = "returned", ![w].outcome = "failure"]
                      ELSE [threads EXCEPT ![w].pc = "model", ![w].key = llm_client]
    /\ UNCHANGED <<api_key, llm_client, model, settings, requests, results, ui_queue,
                   shown>>
    /\ UNCHANGED coreVars

\* call_llm reads self.model and sends the request; the task returns a
\* success or a failure result
SendRequest ==
    /\ \E w \in Workers, outcome \in {"success", "failure"} :
        /\ threads[w].pc = "model"
        /\ requests' = requests \cup {<<w, threads[w].key, model>>}
        /\ threads' = [threads EXCEPT ![w].pc = "returned", ![w].outcome = outcome]
    /\ UNCHANGED <<api_key, llm_client, model, settings, results, ui_queue, shown>>
    /\ UNCHANGED coreVars

\* the worker puts the result of the task in the slot of its kind
StoreResult ==
    /\ \E w \in Workers :
        /\ threads[w].pc = "returned"
        /\ results' = [results EXCEPT ![threads[w].kind] = <<w, threads[w].outcome>>]
        /\ threads' = [threads EXCEPT ![w].pc = "stored"]
    /\ UNCHANGED <<api_key, llm_client, model, settings, requests, ui_queue, shown>>
    /\ UNCHANGED coreVars

\* the print of the result before it is stored raises (run_cognate_alignment
\* and run_pce_analysis print the whole result): the except hands an error
\* result to the UI
PrintRaises ==
    /\ \E w \in Workers :
        /\ threads[w].pc = "returned"
        /\ threads[w].kind \in {"cognate_alignment", "pce_analysis"}
        /\ threads' = [threads EXCEPT ![w].pc = "done", ![w].outcome = "exception"]
        /\ ui_queue' = Enqueued(w, "exception")
    /\ UNCHANGED <<api_key, llm_client, model, settings, requests, results, shown>>
    /\ UNCHANGED coreVars

\* root.after(0, update) with the stored result
ScheduleUpdate ==
    /\ \E w \in Workers :
        /\ threads[w].pc = "stored"
        /\ ui_queue' = Enqueued(w, threads[w].outcome)
        /\ threads' = [threads EXCEPT ![w].pc = "done"]
    /\ UNCHANGED <<api_key, llm_client, model, settings, requests, results, shown>>
    /\ UNCHANGED coreVars

\* the main loop runs the oldest callback: update_*_ui shows its result
UpdateUi ==
    /\ MainThreadFree
    /\ ui_queue # <<>>
    /\ shown' = [shown EXCEPT ![Head(ui_queue)[1]] = Head(ui_queue)[2]]
    /\ ui_queue' = Tail(ui_queue)
    /\ UNCHANGED <<api_key, llm_client, model, settings, threads, requests, results>>
    /\ UNCHANGED coreVars

\* save_settings with a new key and model: set_api_key assigns api_key
SetApiKey ==
    /\ settings = "idle"
    /\ api_key' = "K2"
    /\ settings' = "key_set"
    /\ UNCHANGED <<llm_client, model, threads, requests, results, ui_queue, shown>>
    /\ UNCHANGED coreVars

\* set_api_key assigns the new client
SetClient ==
    /\ settings = "key_set"
    /\ llm_client' = "K2"
    /\ settings' = "client_set"
    /\ UNCHANGED <<api_key, model, threads, requests, results, ui_queue, shown>>
    /\ UNCHANGED coreVars

\* set_model assigns the model
SetModel ==
    /\ settings = "client_set"
    /\ model' = "M2"
    /\ settings' = "saved"
    /\ UNCHANGED <<api_key, llm_client, threads, requests, results, ui_queue, shown>>
    /\ UNCHANGED coreVars

NextApp ==
    \/ Run
    \/ CheckApiKey
    \/ ReadClient
    \/ SendRequest
    \/ StoreResult
    \/ PrintRaises
    \/ ScheduleUpdate
    \/ UpdateUi
    \/ SetApiKey
    \/ SetClient
    \/ SetModel

SpecApp == InitApp /\ [][NextApp]_vars

\* ------------------------------------------------------------ batch_analyze_datasets
\* lines 280-284: the error record of a dataset whose analysis raised
BatchErrorRecord(dataset, msg) ==
    Obj(<< <<<<"dataset_name">>, Get(dataset, <<"name">>)>>,
           <<<<"error">>, Str(msg)>> >>)

\* lines 264-284, one pass of the loop: <<results, successful_analyses,
\* weighted_improvements>> after the dataset with the service's outcome
BatchStep(cl, acc, dataset, outcome) ==
    LET \* lines 271-278, with the result of analyze_pce
        Collected(r) ==
            IF Has(r, <<"error">>) THEN acc
            ELSE IF Has(r, <<"comparison">>) /\ ~IsObj(Get(r, <<"comparison">>))
            THEN <<acc[1] \o <<r, BatchErrorRecord(dataset,
                                    <<"object has no attribute 'get'">>)>>,
                   acc[2] + 1, acc[3]>>
            ELSE <<Append(acc[1], r), acc[2] + 1,
                   Append(acc[3],
                          IF Has(r, <<"comparison">>)
                          THEN GetOrZero(Get(r, <<"comparison">>), <<"weighted_improvement">>)
                          ELSE Num(0))>>
    IN  IF \E k \in {<<"original">>, <<"ota">>} : ~Has(dataset, k)
        THEN <<Append(acc[1], BatchErrorRecord(dataset, <<"KeyError">>)), acc[2], acc[3]>>
        ELSE Collected(analyze_pce(cl, Get(dataset, <<"original">>)[2],
                                   Get(dataset, <<"ota">>)[2],
                                   Get(dataset, <<"name">>)[2], outcome))

\* the loop of lines 264-284 over the datasets from index k on; runs[i] is
\* <<dataset, outcome of the service for it>>
RECURSIVE BatchLoop(_, _, _, _)
BatchLoop(cl, runs, k, acc) ==
    IF k > Len(runs) THEN acc
    ELSE BatchLoop(cl, runs, k + 1, BatchStep(cl, acc, runs[k][1], runs[k][2]))

\* list.index(max(list)) and list.index(min(list)): the first position of
\* the largest and of the smallest value
IndexOfMax(values) ==
    CHOOSE i \in 1..Len(values) :
        /\ \A j \in 1..Len(values) : values[j][2] <= values[i][2]
        /\ \A j \in 1..(i - 1) : values[j][2] < values[i][2]

IndexOfMin(values) ==
    CHOOSE i \in 1..Len(values) :
        /\ \A j \in 1..Len(values) : values[j][2] >= values[i][2]
        /\ \A j \in 1..(i - 1) : values[j][2] > values[i][2]

\* PCEAnalyzer.batch_analyze_datasets, lines 242-300
batch_analyze_datasets(cl, runs) ==
    LET \* lines 287-294: the names are taken from the datasets at the
        \* positions found in weighted_improvements
        Summary(average, best, worst, successful) ==
            Obj(<< <<<<"total_datasets">>, Whole(Len(runs))>>,
                   <<<<"successful_analyses">>, Whole(successful)>>,
                   <<<<"average_weighted_improvement">>, average>>,
                   <<<<"average_logarithmic_improvement">>, Whole(0)>>,
                   <<<<"best_performing_dataset">>, best>>,
                   <<<<"worst_performing_dataset">>, worst>> >>)
        Batch(individual, summary) ==
            Ok(Obj(<< <<<<"individual_results">>, List(individual)>>,
                      <<<<"summary_statistics">>, summary>>,
                      <<<<"analysis_timestamp">>, Num(0)>> >>))
        Summarized(acc) ==
            IF Len(acc[3]) = 0
            THEN Batch(acc[1], Summary(Whole(0), Str(<<>>), Str(<<>>), acc[2]))
            ELSE IF \E i \in 1..Len(acc[3]) : ~IsNum(acc[3][i])
            THEN Raise(<<"unsupported operand type(s) for +">>)
            ELSE Batch(acc[1],
                       Summary(Quot(SumOver([i \in 1..Len(acc[3]) |-> acc[3][i][2]],
                                            1..Len(acc[3])), Len(acc[3])),
                               Get(runs[IndexOfMax(acc[3])][1], <<"name">>),
                               Get(runs[IndexOfMin(acc[3])][1], <<"name">>),
                               acc[2]))
    IN  Summarized(BatchLoop(cl, runs, 1, <<<<>>, 0, <<>>>>))

MaxDatasets == 3

\* the dataset at position i of a batch, with its two texts
Dataset(i, original, ota) ==
    Obj(<< <<<<"name">>, Str(<<"d", i>>)>>,
           <<<<"original">>, Str(original)>>,
           <<<<"ota">>, Str(ota)>> >>)

\* the answer of the service that reports this weighted improvement
Reporting(weighted) ==
    Content(Ser(PceDocument(Num(10000), Num(11900), Num(weighted), Num(1900)), 0))

\* what may happen to the dataset at position i: analysed with one of three
\* improvements, an empty text, a failed request, a missing key
DatasetRuns(i) ==
    {<<Dataset(i, <<"x">>, <<"x">>), Reporting(w)>> : w \in {0, 1900, 2500}}
    \cup {<<Dataset(i, <<>>, <<"x">>), Reporting(1900)>>,
          <<Dataset(i, <<"x">>, <<"x">>), Failure>>,
          <<Without(Dataset(i, <<"x">>, <<"x">>), <<"original">>), Reporting(1900)>>}

\* the batches of n datasets
RECURSIVE BatchesOf(_)
BatchesOf(n) ==
    IF n = 0 THEN {<<>>}
    ELSE {Append(b, r) : b \in BatchesOf(n - 1), r \in DatasetRuns(n)}

BatchInputs == UNION {BatchesOf(n) : n \in 1..MaxDatasets}

InitBatch ==
    /\ pc = "batch"
    /\ client = TRUE
    /\ task = "batch"
    /\ input \in BatchInputs
    /\ response = NotYet
    /\ embedded = NoDocument
    /\ calls = 0
    /\ result = NotYet
    /\ raw = <<>>
    /\ parsed = NotYet
    /\ records = <<>>
    /\ validated = <<>>
    /\ NoApp

BatchAnalyzeDatasets ==
    /\ pc = "batch"
    /\ result' = batch_analyze_datasets(client, input)
    /\ pc' = "batched"
    /\ UNCHANGED <<client, task, input, response, embedded, calls, raw, parsed, records,
                   validated>>
    /\ UNCHANGED appVars

NextBatch == BatchAnalyzeDatasets

SpecBatch == InitBatch /\ [][NextBatch]_vars

\* whether some part of the text t is a JSON object or array
ContainsDocument(t) ==
    \E i \in {k \in 1..Len(t) : t[k] \in {"{", "["}} :
        \E j \in {k \in i..Len(t) : t[k] \in {"}", "]"}} :
            JsonLoads(SubSeq(t, i, j))[1] = "ok"

\* C1: for every response text that holds a valid JSON object or array, with
\* any surrounding prose, label or fence and any layout, parse_json_response
\* returns that whole document.
C1_RecoversEmbeddedDocument ==
    (pc = "extracted" /\ embedded # NoDocument) => parsed = <<"ok", embedded>>

\* C2: a response text that holds no JSON object or array makes
\* parse_json_response raise the ValueError that carries the text, and a
\* returned value is always an object or an array.
C2_FailsWithoutDocument ==
    pc = "extracted" =>
        /\ (embedded = NoDocument /\ ~ContainsDocument(raw))
                => parsed = <<"ValueError", raw>>
        /\ parsed[1] = "ok" => (IsObj(parsed[2]) \/ IsList(parsed[2]))

\* ------------------------------------------------------------ records and results
\* the records of the document the service answered with
Elements(d) ==
    CASE IsList(d) -> d[2]
      [] IsObj(d) /\ Has(d, <<"groups">>) /\ IsList(Get(d, <<"groups">>)) ->
            Get(d, <<"groups">>)[2]
      [] IsObj(d) -> <<d>>
      [] OTHER -> <<>>

HasAll(r, fields) == IsObj(r) /\ \A f \in fields : Has(r, f)

IsListOfStr(v) == IsList(v) /\ \A i \in 1..Len(v[2]) : IsStr(v[2][i])

\* a risk record with every required field, and one with a string letter
CompleteRisk(r) == HasAll(r, required_risk_fields)
KeepableRisk(r) == CompleteRisk(r) /\ IsStr(Get(r, <<"letter">>))

\* a risk record that is well-formed in every field
StrictRisk(r) ==
    /\ KeepableRisk(r)
    /\ \A f \in {<<"possible_confusions">>, <<"languages">>, <<"examples">>} :
            IsListOfStr(Get(r, f))
    /\ IsNum(Get(r, <<"confidence">>))

WellFormedItem(item) == HasAll(item, {<<"lang">>, <<"original">>})

WellFormedItems(items) == SelectSeq(items, WellFormedItem)

\* a group with similarity, items and rationale and two well-formed items
KeepableGroup(g) ==
    /\ HasAll(g, {<<"similarity">>, <<"items">>, <<"rationale">>})
    /\ IsList(Get(g, <<"items">>))
    /\ Len(WellFormedItems(Get(g, <<"items">>)[2])) >= 2

\* a group that is well-formed in every field
StrictGroup(g) ==
    /\ KeepableGroup(g)
    /\ Get(g, <<"similarity">>) \in similarities
    /\ \A i \in 1..Len(Get(g, <<"items">>)[2]) :
            /\ WellFormedItem(Get(g, <<"items">>)[2][i])
            /\ IsStr(Get(Get(g, <<"items">>)[2][i], <<"lang">>))
    /\ Has(g, <<"confidence">>) => IsNum(Get(g, <<"confidence">>))

Done(t) == pc = "done" /\ task = t
Failed == Has(result, <<"error">>)
Answered == calls = 1 /\ embedded # NoDocument

\* the collection of a task result
Returned == Get(result, IF task = "risk" THEN <<"risks">> ELSE <<"groups">>)[2]

\* a record of the running task that is well-formed in every field
Strict(r) == IF task = "risk" THEN StrictRisk(r) ELSE StrictGroup(r)

\* the document of the response is a collection of records, or one record
CollectionGiven ==
    IF task = "risk" THEN IsList(embedded) \/ IsObj(embedded)
    ELSE IsObj(embedded)
            /\ (Has(embedded, <<"groups">>) => IsList(Get(embedded, <<"groups">>)))

\* C3: when the document of the response is a collection of records, risk
\* records or cognate groups, well-formed and malformed in any mix, the task
\* returns a result without error whose collection holds every well-formed
\* record and nothing but records of the response.
C3_MalformedRecordsNeverFail ==
    (pc = "done" /\ task \in {"risk", "cognate"} /\ Answered /\ CollectionGiven) =>
        /\ ~Failed
        /\ Len(Returned) <= Len(Elements(embedded))
        /\ Len(Returned) >=
            Len(SelectSeq(Elements(embedded), Strict))

\* the j-th smallest index of S
Pick(S, j) == CHOOSE i \in S : Cardinality({k \in S : k < i}) = j - 1

\* C4: the validation loop of analyze_risks drops every record that lacks
\* one of letter, possible_confusions, languages, examples, confidence, keeps
\* every record that has all five and a string letter, in their order, and
\* returns no more records than it was given.
C4_DropsIncompleteKeepsComplete ==
    (pc = "validated" /\ task = "risk") =>
        /\ Len(validated) <= Len(records)
        /\ \E S \in SUBSET (1..Len(records)) :
            /\ Cardinality(S) = Len(validated)
            /\ \A i \in 1..Len(records) :
                /\ ~CompleteRisk(records[i]) => i \notin S
                /\ KeepableRisk(records[i]) => i \in S
            /\ \A j \in 1..Len(validated) :
                /\ CompleteRisk(validated[j])
                /\ Get(validated[j], <<"letter">>)
                        = Get(records[Pick(S, j)], <<"letter">>)

\* an incomplete record was dropped and a complete one after it was kept
C4_Witness ==
    /\ pc = "validated"
    /\ task = "risk"
    /\ Len(records) = 2
    /\ ~CompleteRisk(records[1])
    /\ KeepableRisk(records[2])
    /\ Len(validated) = 1

\* the records of the successful risk result that came from the service, and
\* the records of the response they were made from
RiskResult == Done("risk") /\ Answered /\ ~Failed
KeptRisks == SelectSeq(Elements(embedded), KeepableRisk)

\* the confidence a record is to carry, from the one the service gave
ExpectedConfidence(v) ==
    LET n == IF IsNum(v) THEN v[2] ELSE NumTable[v[2][1]]
    IN  IF IsNum(v) \/ (IsStr(v) /\ Len(v[2]) = 1 /\ v[2][1] \in NumLits)
        THEN (IF n > 100 THEN 100 ELSE IF n < 0 THEN 0 ELSE n)
        ELSE 50

\* C5: in a successful analyze_risks result for which the service was
\* called, every record has a numeric confidence within [0, 1] (a numeric
\* string parsed, a value above 1 cut to 1, below 0 to 0, anything else 0.5),
\* a severity among low, medium, high (medium when the service gave none of
\* them), lists in possible_confusions, languages and examples, and a
\* frequency_in_text of at least 0.
C5_RiskRecordsNormalized ==
    RiskResult =>
        /\ Len(Returned) = Len(KeptRisks)
        /\ \A j \in 1..Len(Returned) :
            LET r == Returned[j]
                given == KeptRisks[j]
            IN  /\ HasAll(r, RiskFields \cup {<<"frequency_in_text">>})
                /\ IsNum(Get(r, <<"confidence">>))
                /\ Get(r, <<"confidence">>)[2] \in 0..100
                /\ Get(r, <<"confidence">>)[2]
                        = ExpectedConfidence(Get(given, <<"confidence">>))
                /\ Get(r, <<"severity">>) \in severities
                /\ (Has(given, <<"severity">>)
                        /\ Get(given, <<"severity">>) \in severities)
                    => Get(r, <<"severity">>) = Get(given, <<"severity">>)
                /\ ~(Has(given, <<"severity">>)
                        /\ Get(given, <<"severity">>) \in severities)
                    => Get(r, <<"severity">>) = Str(<<"medium">>)
                /\ \A f \in {<<"possible_confusions">>, <<"languages">>, <<"examples">>} :
                        IsList(Get(r, f))
                /\ IsNum(Get(r, <<"frequency_in_text">>))
                /\ Get(r, <<"frequency_in_text">>)[2] >= 0

\* a confidence of 1.4 was cut to 1 in a result of two records
C5_Witness ==
    /\ RiskResult
    /\ Len(Returned) = 2
    /\ Get(KeptRisks[2], <<"confidence">>) = Num(140)
    /\ Get(Returned[2], <<"confidence">>) = Num(100)

\* every item of the group is a mapping with string lang and original
StrictItems(g) ==
    \A i \in 1..Len(Get(g, <<"items">>)[2]) :
        LET item == Get(g, <<"items">>)[2][i]
        IN  /\ WellFormedItem(item)
            /\ IsStr(Get(item, <<"lang">>))
            /\ IsStr(Get(item, <<"original">>))

KeptGroups == SelectSeq(Elements(embedded), KeepableGroup)

LoneGroup(d) ==
    /\ HasAll(d, required_group_fields)
    /\ ~Has(d, <<"groups">>)
    /\ Get(d, <<"similarity">>) \in similarities
    /\ IsList(Get(d, <<"items">>))
    /\ Len(Get(d, <<"items">>)[2]) = 2
    /\ \A k \in 1..2 : WellFormedItem(Get(d, <<"items">>)[2][k])

TierConfidence(similarity) ==
    IF similarity = Str(<<"high">>) THEN Num(80)
    ELSE IF similarity = Str(<<"medium">>) THEN Num(60) ELSE Num(40)

\* C7: when the document of the response is a lone group with exactly two
\* well-formed items, align_cognates returns exactly one group, with the
\* similarity, the items and the rationale of the response, the confidence
\* of the tier (0.8, 0.6, 0.4) when the response gave none and the fixed
\* root_analysis placeholder when the response gave none.
C7_LoneGroupIsWrapped ==
    (Done("cognate") /\ Answered /\ LoneGroup(embedded)) =>
        /\ ~Failed
        /\ Len(Returned) = 1
        /\ Get(Returned[1], <<"similarity">>) = Get(embedded, <<"similarity">>)
        /\ Get(Returned[1], <<"rationale">>) = Get(embedded, <<"rationale">>)
        /\ Len(Get(Returned[1], <<"items">>)[2]) = 2
        /\ \A k \in 1..2 : \A f \in {<<"lang">>, <<"original">>} :
                Get(Get(Returned[1], <<"items">>)[2][k], f)
                    = Get(Get(embedded, <<"items">>)[2][k], f)
        /\ ~Has(embedded, <<"confidence">>) =>
                Get(Returned[1], <<"confidence">>)
                    = TierConfidence(Get(embedded, <<"similarity">>))
        /\ ~Has(embedded, <<"root_analysis">>) =>
                Get(Returned[1], <<"root_analysis">>)
                    = Str(<<"Root analysis not provided">>)

\* C8: every group align_cognates returns has a numeric confidence within
\* [0, 1], and a group of the response is returned whatever confidence the
\* service gave it: a numeric string parsed, an unparsable value replaced by
\* the default, a value out of range clamped.
C8_GroupConfidenceInRange ==
    Done("cognate") =>
        /\ \A j \in 1..Len(Returned) :
            /\ Has(Returned[j], <<"confidence">>)
            /\ IsNum(Get(Returned[j], <<"confidence">>))
            /\ Get(Returned[j], <<"confidence">>)[2] \in 0..100
        /\ (Answered /\ CollectionGiven
                /\ \A i \in 1..Len(KeptGroups) : StrictItems(KeptGroups[i]))
            => Len(Returned) = Len(KeptGroups)

\* a group that is valid but for the fields that only explain it
ValidButForExplanation(g) ==
    /\ HasAll(g, {<<"similarity">>, <<"items">>})
    /\ IsList(Get(g, <<"items">>))
    /\ Len(WellFormedItems(Get(g, <<"items">>)[2])) >= 2

OtherwiseValid(r) == IF task = "risk" THEN KeepableRisk(r) ELSE ValidButForExplanation(r)

Keepable(r) == IF task = "risk" THEN KeepableRisk(r) ELSE KeepableGroup(r)

IsText(v) == IsStr(v) /\ Len(v[2]) > 0

\* C9 as stated: a record that is valid but lacks an explanatory field is
\* kept by the validation loop and the field filled with a placeholder
\* string: a risk record without context, a group without root_analysis, a
\* group without rationale.
C9_ExplanatoryFieldsGetPlaceholder ==
    pc = "validated" =>
        LET kept == SelectSeq(records, OtherwiseValid)
        IN  /\ Len(validated) = Len(kept)
            /\ \A j \in 1..Len(validated) :
                \A f \in IF task = "risk" THEN {<<"context">>}
                         ELSE {<<"root_analysis">>, <<"rationale">>} :
                    /\ Has(validated[j], f)
                    /\ ~Has(kept[j], f) => IsText(Get(validated[j], f))

\* C9 amended: a risk record without context is kept with the context
\* "Phonetic ambiguity for letter '<letter>'", a group without root_analysis
\* is kept with the fixed placeholder, and a given context or root_analysis
\* is left as it is; rationale is a required field, a group without it is
\* dropped.
C9_ContextAndRootAnalysisGetPlaceholder ==
    pc = "validated" =>
        LET kept == SelectSeq(records, Keepable)
        IN  /\ Len(validated) = Len(kept)
            /\ \A i \in 1..Len(records) :
                (task = "cognate" /\ ~HasAll(records[i], {<<"rationale">>}))
                    => ~Keepable(records[i])
            /\ \A j \in 1..Len(validated) :
                LET f == IF task = "risk" THEN <<"context">> ELSE <<"root_analysis">>
                    placeholder ==
                        IF task = "risk"
                        THEN Str(<<"Phonetic ambiguity for letter '">>
                                 \o Get(kept[j], <<"letter">>)[2] \o <<"'">>)
                        ELSE Str(<<"Root analysis not provided">>)
                IN  /\ Has(validated[j], f)
                    /\ Get(validated[j], f) =
                          IF Has(kept[j], f) THEN Get(kept[j], f) ELSE placeholder
                    /\ task = "cognate" =>
                          /\ Has(validated[j], <<"rationale">>)
                          /\ Get(validated[j], <<"rationale">>)
                                = Get(kept[j], <<"rationale">>)

\* of two groups the one without rationale was dropped and the one without
\* root_analysis kept with the placeholder
C9_Witness ==
    /\ pc = "validated"
    /\ task = "cognate"
    /\ Len(records) = 2
    /\ ValidButForExplanation(records[1])
    /\ ~Has(records[1], <<"rationale">>)
    /\ KeepableGroup(records[2])
    /\ ~Has(records[2], <<"root_analysis">>)
    /\ Len(validated) = 1
    /\ Get(validated[1], <<"root_analysis">>) = Str(<<"Root analysis not provided">>)

Blank(text) == \A i \in 1..Len(text) : text[i] \in WS

NoTrackedLetter(text) == \A i \in 1..Len(text) : text[i] \notin new_letters

\* the result is the single placeholder record, confidence 1.0, severity low
PlaceholderOnly ==
    /\ ~Failed
    /\ Has(result, <<"risks">>)
    /\ IsList(Get(result, <<"risks">>))
    /\ Len(Returned) = 1
    /\ HasAll(Returned[1], {<<"letter">>, <<"confidence">>, <<"severity">>})
    /\ Get(Returned[1], <<"letter">>) = Str(<<"none">>)
    /\ Get(Returned[1], <<"confidence">>) = Num(100)
    /\ Get(Returned[1], <<"severity">>) = Str(<<"low">>)

\* C10 as stated: for every non-empty text without a tracked letter
\* analyze_risks makes no request, with or without a credential, and returns
\* a result without error whose risks are the one placeholder record.
C10_NoLettersNoRequest ==
    (Done("risk") /\ Len(input) > 0 /\ NoTrackedLetter(input)) =>
        calls = 0 /\ PlaceholderOnly

\* C10 amended: the same for every text that is not empty and not only
\* whitespace (a whitespace-only text is rejected as empty).
C10_NoLettersNoRequestUnlessBlank ==
    (Done("risk") /\ ~Blank(input) /\ NoTrackedLetter(input)) =>
        calls = 0 /\ PlaceholderOnly

\* with a credential configured, a text of plain letters got the placeholder
C10_Witness ==
    /\ Done("risk")
    /\ client
    /\ input = <<"a", "a">>
    /\ calls = 0
    /\ PlaceholderOnly

\* a primary text of the task that ran is empty or whitespace-only
BlankInput ==
    IF task = "pce" THEN Blank(input[1]) \/ Blank(input[2]) ELSE Blank(input)

\* the result reports a failure: an error text, and for transliterate the
\* flag ok set to false
FailureResult ==
    /\ IsObj(result)
    /\ Has(result, <<"error">>)
    /\ IsStr(Get(result, <<"error">>))
    /\ Len(Get(result, <<"error">>)[2]) > 0
    /\ task = "transliterate" =>
            Has(result, <<"ok">>) /\ Get(result, <<"ok">>) = Bool(FALSE)

\* C11: each of the four task entry points, given an empty or
\* whitespace-only primary text (for analyze_pce: either of the two texts),
\* returns a failure result without a call to the generation service.
C11_BlankInputRejected ==
    (pc = "done" /\ BlankInput) =>
        FailureResult /\ calls = 0 /\ response = NotYet

\* with a credential configured, analyze_pce refused a whitespace-only CTA
\* text next to a proper original text
C11_Witness ==
    /\ Done("pce")
    /\ client
    /\ input = << <<"x">>, <<SP, SP>> >>
    /\ FailureResult
    /\ calls = 0

\* a stripped line that is no candidate: no separator, or nothing before or
\* after the first one
Malformed(line) ==
    /\ Len(line) > 0
    /\ \/ Colon \notin Range(line)
       \/ LET at == Min({i \in 1..Len(line) : line[i] = Colon})
          IN  \/ Blank(SubSeq(line, 1, at - 1))
              \/ Blank(SubSeq(line, at + 1, Len(line)))

\* the candidate input holds a malformed line
HasMalformedLine(text) ==
    \E i \in 1..Len(Split(text, <<NL>>)) : Malformed(Strip(Split(text, <<NL>>)[i]))

\* C12: a cognate-alignment input with a malformed candidate line (no ':',
\* an empty language code or an empty word) makes align_cognates report an
\* error without a call to the generation service, also when other lines of
\* the input are well-formed.
C12_MalformedLineRejected ==
    (Done("cognate") /\ HasMalformedLine(input)) => Failed /\ calls = 0

\* the input passes the checks the task makes before it builds a request
PassesLocalChecks ==
    CASE task = "transliterate" -> ~Blank(input)
      [] task = "risk" -> ~Blank(input) /\ ~NoTrackedLetter(input)
      [] task = "cognate" ->
            \E i \in 1..Len(Split(input, <<NL>>)) :
                LET line == Strip(Split(input, <<NL>>)[i])
                IN  Len(line) > 0 /\ ~Malformed(line)
      [] task = "pce" -> ~Blank(input[1]) /\ ~Blank(input[2])

\* the request failed in transport
TransportFailed == calls = 1 /\ response = Failure

\* the service answered with a text no document can be extracted from
ExtractionFailed ==
    calls = 1 /\ response # Failure /\ parse_json_response(response[2])[1] # "ok"

\* the service answered with a document of a kind the task cannot validate:
\* risks are a list, a dict or a string, every other task wants a dict
UnusableDocument ==
    /\ calls = 1 /\ response # Failure /\ embedded # NoDocument
    /\ IF task = "risk" THEN ~(IsList(embedded) \/ IsObj(embedded) \/ IsStr(embedded))
       ELSE ~IsObj(embedded)

SuccessResult ==
    /\ IsObj(result)
    /\ ~Has(result, <<"error">>)
    /\ task = "transliterate" =>
            /\ Has(result, <<"ok">>)
            /\ Get(result, <<"ok">>) = Bool(TRUE)
            /\ Has(result, <<"output_text">>)
            /\ IsStr(Get(result, <<"output_text">>))
            /\ Len(Get(result, <<"output_text">>)[2]) > 0

\* C14: for every input, service outcome and response text, each entry
\* point returns a result that is either success-with-data or
\* failure-with-reason (a non-empty 'error' string), never neither.
C14_ResultIsSuccessOrFailure ==
    pc = "done" => SuccessResult \/ FailureResult

\* what the caller can tell of a result apart from the text of its message:
\* its members, with the 'error' text masked
ErrorKind(r) ==
    IF ~IsObj(r) THEN r
    ELSE Obj([i \in 1..Len(r[2]) |->
                IF r[2][i][1] = <<"error">> THEN <<r[2][i][1], Str(<<"text">>)>>
                ELSE r[2][i]])

\* the results of the task under way on the same input, with a credential,
\* when the request ends with this outcome
SameRun(outcome) ==
    CASE task = "risk" -> {analyze_risks(TRUE, input, outcome)}
      [] task = "cognate" -> {align_cognates(TRUE, input, outcome)}
      [] task = "transliterate" ->
            {transliterate(TRUE, input, language, outcome) :
                language \in SourceLanguages}
      [] task = "pce" -> {analyze_pce(TRUE, input[1], input[2], <<"Custom">>, outcome)}
      [] OTHER -> {}

\* C15: without a credential a task makes no request, and its result is a
\* configuration-error outcome that differs in kind, not only in message
\* text, from the result of a transport failure and of an extraction
\* failure.
C15_MissingCredentialDistinct ==
    (pc = "done" /\ ~client /\ PassesLocalChecks) =>
        /\ calls = 0
        /\ response = NotYet
        /\ FailureResult
        /\ \A outcome \in {Failure, Content(<<"abc">>)} :
                \A other \in SameRun(outcome) : ErrorKind(result) # ErrorKind(other)

\* the half of C15 the code keeps: without a credential no request is made
\* and the task fails
C15_NoRequestWithoutCredential ==
    (pc = "done" /\ ~client /\ PassesLocalChecks) =>
        calls = 0 /\ response = NotYet /\ FailureResult

\* the service answered with a collection whose records are all dicts that
\* validation drops (or with an empty collection)
EveryRecordDropped ==
    /\ Answered
    /\ CollectionGiven
    /\ \A i \in 1..Len(Elements(embedded)) :
            IsObj(Elements(embedded)[i]) /\ ~Keepable(Elements(embedded)[i])

\* the run failed on its input, its configuration, in transport or in
\* extraction
FailedRun ==
    \/ IF task = "risk" THEN Blank(input) ELSE ~PassesLocalChecks
    \/ ~client /\ PassesLocalChecks
    \/ TransportFailed
    \/ ExtractionFailed

\* C16: in risk analysis and cognate alignment a run whose records were all
\* dropped by validation returns an empty collection and no 'error' key, and
\* every failed run returns an 'error' key: the presence of 'error' tells a
\* failure from a valid empty outcome.
C16_ErrorKeySeparatesFailureFromEmpty ==
    (pc = "done" /\ task \in {"risk", "cognate"}) =>
        /\ EveryRecordDropped => ~Failed /\ Returned = <<>>
        /\ FailedRun => Failed

\* the half of C16 that concerns failed runs
C16_FailedRunHasError ==
    (pc = "done" /\ task \in {"risk", "cognate"} /\ FailedRun) => Failed

\* a run of align_cognates that did not fail and dropped every record, with
\* an 'error' key in its result
C16_ErrorInValidEmptyOutcome ==
    /\ Done("cognate")
    /\ EveryRecordDropped
    /\ Has(result, <<"statistics">>)
    /\ Returned = <<>>
    /\ Failed

\* the members of a transliteration result
OkIs(b) == Has(result, <<"ok">>) /\ Get(result, <<"ok">>) = Bool(b)
OutputTextPresent ==
    Has(result, <<"output_text">>) /\ IsText(Get(result, <<"output_text">>))
ErrorPresent == Has(result, <<"error">>)

\* C17: in every result of transliterate output_text is present, a
\* non-empty string, exactly when ok is true, and error is present exactly
\* when ok is false, whatever document the service returned.
C17_OutputIffOkErrorIffNotOk ==
    Done("transliterate") =>
        /\ IsObj(result)
        /\ OkIs(TRUE) \/ OkIs(FALSE)
        /\ OutputTextPresent <=> OkIs(TRUE)
        /\ ErrorPresent <=> OkIs(FALSE)

\* the results transliterate builds itself keep the rule: a blank text, a
\* missing credential, a failed request and an unextractable answer give
\* ok false with an error and no output_text
C17_OwnFailuresKeepTheRule ==
    (Done("transliterate") /\ (calls = 0 \/ TransportFailed \/ ExtractionFailed)) =>
        OkIs(FALSE) /\ ErrorPresent /\ ~Has(result, <<"output_text">>)

\* the improvement in percent of a score over the original score, both in
\* hundredths, as hundredths; 0 when the original score is 0
Improvement(original, ota) ==
    IF original = 0 THEN 0 ELSE ((ota - original) * 10000) \div original

\* the result carries numeric scores of this method for both texts
ScoresGiven(method) ==
    /\ IsObj(result)
    /\ \A a \in {<<"original_analysis">>, <<"ota_analysis">>} :
            /\ Has(result, a)
            /\ IsObj(Get(result, a))
            /\ Has(Get(result, a), method)
            /\ IsNum(Get(Get(result, a), method))

\* the improvement of this method in the result is the one its scores give
ImprovementComputed(method, improvement) ==
    /\ Has(result, <<"comparison">>)
    /\ IsObj(Get(result, <<"comparison">>))
    /\ Has(Get(result, <<"comparison">>), improvement)
    /\ Get(Get(result, <<"comparison">>), improvement) =
            Num(Improvement(Get(Get(result, <<"original_analysis">>), method)[2],
                            Get(Get(result, <<"ota_analysis">>), method)[2]))

\* C18: in every successful analyze_pce result the weighted and the
\* logarithmic improvement of the comparison are (ota - original) / original
\* * 100 over the scores in the result, whatever the service reported, and 0
\* when the original score is 0.
C18_ImprovementRecomputed ==
    (Done("pce") /\ ~Failed) =>
        /\ ScoresGiven(<<"weighted_pce">>) =>
                ImprovementComputed(<<"weighted_pce">>, <<"weighted_improvement">>)
        /\ ScoresGiven(<<"logarithmic_pce">>) =>
                ImprovementComputed(<<"logarithmic_pce">>, <<"logarithmic_improvement">>)

\* the service reported 25 for the scores 100 and 119, and the result keeps
\* the 25
C18_ReportedValueKept ==
    /\ Done("pce")
    /\ ~Failed
    /\ ScoresGiven(<<"weighted_pce">>)
    /\ Get(Get(result, <<"original_analysis">>), <<"weighted_pce">>) = Num(10000)
    /\ Get(Get(result, <<"ota_analysis">>), <<"weighted_pce">>) = Num(11900)
    /\ Has(result, <<"comparison">>)
    /\ Get(result, <<"comparison">>) =
            Obj(<< <<<<"weighted_improvement">>, Num(2500)>>,
                   <<<<"logarithmic_improvement">>, Num(1900)>> >>)

\* the sum of the item counts of the validated groups
ItemCounts ==
    SumOver([i \in 1..Len(validated) |-> Len(Get(validated[i], <<"items">>)[2])],
            1..Len(validated))

\* the alignment statistics say what the validated groups and the parsed
\* candidates give
AlignmentStatisticsRight(statistics, candidates) ==
    /\ Get(statistics, <<"groups_found">>) = Whole(Len(validated))
    /\ Get(statistics, <<"total_aligned_words">>) = Whole(ItemCounts)
    /\ Get(statistics, <<"alignment_rate">>) =
            IF candidates = 0 \/ ItemCounts = 0 THEN Num(0)
            ELSE Quot(ItemCounts, candidates)

\* C19: _calculate_alignment_statistics returns, without raising, and also
\* for an empty candidate list with or without groups, groups_found = the
\* number of validated groups, total_aligned_words = the sum of their item
\* counts and alignment_rate = that sum over the number of parsed
\* candidates, 0 when there is no candidate or no group.
C19_AlignmentRate ==
    (pc = "counted" /\ task = "cognate") =>
        /\ ~Raised(result)
        /\ AlignmentStatisticsRight(result[2], Len(parse_candidates(input)))

\* the statistics that are returned are the ones C19 describes
C19_ReturnedStatisticsRight ==
    (pc = "counted" /\ task = "cognate" /\ ~Raised(result)) =>
        AlignmentStatisticsRight(result[2], Len(parse_candidates(input)))

\* groups were counted against an empty candidate list and the rate is 0
C19_EmptyCandidatesWithGroups ==
    /\ pc = "counted"
    /\ task = "cognate"
    /\ input = <<>>
    /\ Len(validated) = 2
    /\ ~Raised(result)
    /\ Get(result[2], <<"alignment_rate">>) = Num(0)
    /\ Get(result[2], <<"total_aligned_words">>) = Whole(5)

\* the letter of a validated risk, how often a letter occurs in the
\* validated collection and where it occurs first
LetterOf(i) == Get(validated[i], <<"letter">>)
Occurrences(letter) == Cardinality({i \in 1..Len(validated) : LetterOf(i) = letter})
FirstSeen(letter) == Min({i \in 1..Len(validated) : LetterOf(i) = letter})
Letters == {LetterOf(i) : i \in 1..Len(validated)}

\* one letter goes before the other: more occurrences, or as many and first
\* encountered earlier
Before(a, b) ==
    \/ Occurrences(a) > Occurrences(b)
    \/ Occurrences(a) = Occurrences(b) /\ FirstSeen(a) < FirstSeen(b)

\* a list of (letter, count) pairs is the top 3 of the validated collection
IsTopThree(pairs) ==
    /\ Len(pairs) = Min({3, Cardinality(Letters)})
    /\ \A r \in 1..Len(pairs) :
            /\ pairs[r][1] = "list"
            /\ Len(pairs[r][2]) = 2
            /\ pairs[r][2][1] \in Letters
            /\ pairs[r][2][2] = Whole(Occurrences(pairs[r][2][1]))
    /\ \A r, q \in 1..Len(pairs) : r < q => Before(pairs[r][2][1], pairs[q][2][1])
    /\ \A letter \in Letters \ {pairs[r][2][1] : r \in 1..Len(pairs)} :
            \A r \in 1..Len(pairs) : Before(pairs[r][2][1], letter)

\* C20: for a non-empty validated risk collection the most_problematic_letters
\* of the statistics hold at most 3 (letter, count) pairs, the letters with the highest
\* counts in descending order of count, equal counts in the order of first
\* encounter, and no letter left out has a higher count than a listed one.
C20_TopThreeLetters ==
    (pc = "counted" /\ task = "risk" /\ Len(validated) > 0 /\ ~Raised(result)) =>
        /\ Has(result[2], <<"most_problematic_letters">>)
        /\ IsTopThree(Get(result[2], <<"most_problematic_letters">>)[2])

\* five validated risks of four letters, the three letters that occur once
\* tied: the letter counted twice leads, the first two of the others follow
C20_Witness ==
    /\ pc = "counted"
    /\ task = "risk"
    /\ Len(validated) = 5
    /\ [i \in 1..5 |-> LetterOf(i)] =
            <<Str(<<"a">>), Str(<<"#">>), Str(<<"x">>), Str(<<"X">>), Str(<<"x">>)>>
    /\ ~Raised(result)
    /\ Get(result[2], <<"most_problematic_letters">>) =
            List(<< List(<<Str(<<"x">>), Whole(2)>>),
                    List(<<Str(<<"a">>), Whole(1)>>),
                    List(<<Str(<<"#">>), Whole(1)>>) >>)

\* a character without its case: the lower-case form where there is one
Fold(c) == IF c \in DOMAIN LowerOf THEN LowerOf[c] ELSE c

\* the positions of the text whose character is this one-character letter,
\* ignoring case
OccurrencesInText(letter) ==
    {i \in 1..Len(input) : Fold(input[i]) = Fold(letter[2][1])}

\* the positions of the text flagged by some validated record
FlaggedPositions == UNION {OccurrencesInText(LetterOf(i)) : i \in 1..Len(validated)}

\* C21: total_new_letters_in_text is the number of characters of the text
\* that equal, ignoring case, the letter of some validated risk record, each
\* counted once, also when two records flag one letter and when the letter
\* has no case; each record's frequency_in_text is the case-insensitive
\* number of occurrences of its own letter.
C21_OccurrencesCountedOnce ==
    (pc = "counted" /\ task = "risk" /\ Len(validated) > 0 /\ ~Raised(result)) =>
        /\ Get(result[2], <<"total_new_letters_in_text">>) =
                Whole(Cardinality(FlaggedPositions))
        /\ \A i \in 1..Len(validated) :
                Get(validated[i], <<"frequency_in_text">>) =
                    Whole(Cardinality(OccurrencesInText(LetterOf(i))))

\* the case C21 is right about: one record for a letter with two case forms
C21_SingleCasedLetterCounted ==
    (pc = "counted" /\ task = "risk" /\ Len(validated) = 1 /\ ~Raised(result)
        /\ LetterOf(1)[2][1] \in DOMAIN LowerOf \cup DOMAIN UpperOf) =>
        /\ Get(result[2], <<"total_new_letters_in_text">>) =
                Whole(Cardinality(FlaggedPositions))
        /\ Get(validated[1], <<"frequency_in_text">>) =
                Whole(Cardinality(OccurrencesInText(LetterOf(1))))

\* one record whose letter has no case, occurring once in the text, counted
\* twice
C21_CaselessLetterCountedTwice ==
    /\ pc = "counted"
    /\ task = "risk"
    /\ Len(validated) = 1
    /\ LetterOf(1) = Str(<<"#">>)
    /\ Cardinality(OccurrencesInText(LetterOf(1))) = 1
    /\ Get(validated[1], <<"frequency_in_text">>) = Whole(2)
    /\ ~Raised(result)
    /\ Get(result[2], <<"total_new_letters_in_text">>) = Whole(2)

\* two records for the same letter: its two occurrences are counted four
\* times
C21_SameLetterTwiceCountedTwice ==
    /\ pc = "counted"
    /\ task = "risk"
    /\ Len(validated) = 2
    /\ LetterOf(1) = Str(<<"x">>)
    /\ LetterOf(2) = Str(<<"x">>)
    /\ ~Raised(result)
    /\ Get(result[2], <<"total_new_letters_in_text">>) = Whole(4)

\* a call of a statistics aggregator
AggregatorCall == pc \in {"validated", "counted"} /\ pc' \in {"counted", "recounted"}

C23_RequestUsesLaunchConfiguration ==
    \A r \in requests :
        threads[r[1]].launched = <<"K1", "M1">> => <<r[2], r[3]>> = <<"K1", "M1">>

\* C23: a request of a task started under K1 and M1 carries the old key
\* with the new model.
C23_MixedPairSent ==
    \E r \in requests :
        /\ threads[r[1]].launched = <<"K1", "M1">>
        /\ <<r[2], r[3]>> = <<"K1", "M2">>

\* C23: a request of a task started under K1 and M1 carries the new key
\* and the new model.
C23_NewPairSent ==
    \E r \in requests :
        /\ threads[r[1]].launched = <<"K1", "M1">>
        /\ <<r[2], r[3]>> = <<"K2", "M2">>

\* ---------------------------------------------------------------- C24
\* the run of worker w has ended and no other run of its kind was in flight
\* with it or came after it
LastRunOfItsKind(w) ==
    /\ threads[w].pc = "done"
    /\ \A v \in Workers \ {w} :
        threads[v].kind = threads[w].kind => v \in threads[w].after

\* C24: every completed run of a kind leaves its own outcome in the slot of
\* that kind, whether it ended in a success, a task failure, the missing
\* credential check or an exception in the worker.
C24_CompletedRunOverwritesSlot ==
    \A w \in Workers :
        LastRunOfItsKind(w) => results[threads[w].kind] = <<w, threads[w].outcome>>

\* C24: a rerun that ended at the missing-credential check or in an exception
\* left the result of the earlier run in the slot.
C24_SlotKeepsEarlierResult ==
    \E w \in Workers, v \in Workers :
        /\ LastRunOfItsKind(w)
        /\ v \in threads[w].after
        /\ threads[v].kind = threads[w].kind
        /\ threads[w].outcome = "exception"
        /\ results[threads[w].kind] = <<v, threads[v].outcome>>

\* C24: a step changes the slot of a kind only when a run of that kind stores
\* its result; the other slots stay as they were.
C24_OtherSlotsUnchanged ==
    [][\A k \in Kinds :
        results'[k] # results[k] =>
            \E w \in Workers :
                /\ threads[w].kind = k
                /\ threads[w].pc = "returned"
                /\ threads'[w].pc = "stored"]_vars

\* ---------------------------------------------------------------- C28
\* two runs of the kind k were in flight at once, both stored their result
\* and both callbacks have run
BothRunsShown(k) ==
    /\ \A w \in Workers :
        /\ threads[w].pc = "done"
        /\ threads[w].kind = k
        /\ threads[w].outcome \in {"success", "failure"}
        /\ threads[w].after = {}
    /\ ui_queue = <<>>

\* C28: when two runs of one kind were in flight and both workers and both
\* callbacks have completed, the panel of the kind shows the result the slot
\* holds.
C28_PanelShowsStoredResult ==
    \A k \in Kinds : BothRunsShown(k) => shown[k] = results[k]

\* C28: the slot holds the result of one run and the panel shows the result
\* of the other.
C28_PanelShowsOtherRun ==
    \E k \in Kinds :
        /\ BothRunsShown(k)
        /\ results[k] = <<2, threads[2].outcome>>
        /\ shown[k] = <<1, threads[1].outcome>>

\* ---------------------------------------------------------------- C25
\* the response is an object over several lines with nothing around it
BareObjectOverLines ==
    /\ pc = "extracted"
    /\ IsObj(embedded)
    /\ StartsWith(raw, "{")
    /\ EndsWith(raw, "}")
    /\ Contains(raw, <<NL>>)

\* C25: the line scan stops only where the braces of all accumulated lines
\* balance, so the buffer of a multi-line object is the whole object, also
\* when a nested object closes on a line of its own.
C25_BufferIsWholeObject ==
    BareObjectOverLines => JsonLoads(JsonCandidate(raw)) = <<"ok", embedded>>

\* C25: the buffer ends at the closing line of the nested object, with more
\* opening than closing braces.
C25_BufferCutAtInnerClose ==
    /\ BareObjectOverLines
    /\ Len(JsonCandidate(raw)) < Len(raw)
    /\ EndsWith(JsonCandidate(raw), "}")
    /\ Count(JsonCandidate(raw), "{") > Count(JsonCandidate(raw), "}")

\* C25: an object whose lines hold no nested closing brace of their own is
\* accumulated whole.
C25_FlatObjectWhole ==
    /\ BareObjectOverLines
    /\ JsonLoads(JsonCandidate(raw)) = <<"ok", embedded>>

\* ---------------------------------------------------------------- C26
\* the document whose string value holds the label
LabelInValue == Obj(<< <<<<"a">>, Str(<<OutputLabel, SP, "x">>)>> >>)

\* C26: a label that is not at the start of the content, such as one inside
\* a string value of the document, is left in place: the value returned is
\* the value in the response.
C26_LaterLabelUntouched ==
    (pc = "extracted" /\ embedded = LabelInValue /\ parsed[1] = "ok")
        => parsed = <<"ok", embedded>>

\* C26: the label was taken out of the string value of a response that is
\* the document alone.
C26_LabelRemovedFromValue ==
    /\ pc = "extracted"
    /\ embedded = LabelInValue
    /\ raw = Ser(LabelInValue, 0)
    /\ parsed = <<"ok", Obj(<< <<<<"a">>, Str(<<SP, "x">>)>> >>)>>

\* C26: inside a json fence the label in the value is kept.
C26_FencedLabelKept ==
    /\ pc = "extracted"
    /\ embedded = LabelInValue
    /\ Contains(raw, <<Fence, JsonTag>>)
    /\ parsed = <<"ok", embedded>>

\* ---------------------------------------------------------------- C27
\* a group record of similarity high with two items and a rationale
BareGroup == Without(Without(GroupRecord("high"), <<"confidence">>), <<"root_analysis">>)

\* the cognate service answered with a top-level array of one group record
AnsweredWithArray ==
    /\ pc = "done"
    /\ task = "cognate"
    /\ calls = 1
    /\ response # Failure
    /\ embedded = List(<<BareGroup>>)
    /\ parse_json_response(response[2]) = <<"ok", embedded>>

\* C27: for a response that is a top-level array of one group record,
\* align_cognates returns a result without error whose groups hold that
\* one group, with two items and confidence 0.8.
C27_ArrayOfGroupsAccepted ==
    AnsweredWithArray =>
        /\ ~ErrorPresent
        /\ IsList(Get(result, <<"groups">>))
        /\ Len(Get(result, <<"groups">>)[2]) = 1
        /\ Len(Get(Get(result, <<"groups">>)[2][1], <<"items">>)[2]) = 2
        /\ Get(Get(result, <<"groups">>)[2][1], <<"confidence">>) = Num(80)

\* C27: the array of one group record ends in the validation error with no
\* groups.
C27_ArrayRejected ==
    /\ AnsweredWithArray
    /\ ErrorPresent
    /\ Get(result, <<"groups">>) = List(<<>>)
    /\ Get(result, <<"original_result">>) = embedded

\* C27: the same record as a lone top-level object gives one group of two
\* items with confidence 0.8.
C27_LoneGroupAccepted ==
    /\ pc = "done"
    /\ task = "cognate"
    /\ calls = 1
    /\ embedded = BareGroup
    /\ ~ErrorPresent
    /\ Len(Get(result, <<"groups">>)[2]) = 1
    /\ Get(Get(result, <<"groups">>)[2][1], <<"confidence">>) = Num(80)

\* ---------------------------------------------------------------- C29
\* analyze_risks returned a result without error
RisksReturned == pc = "done" /\ task = "risk" /\ ~ErrorPresent

\* C29: in every result of analyze_risks without error, statistics.total_risks
\* is the number of records in risks.
C29_TotalRisksIsRecordCount ==
    RisksReturned =>
        Get(Get(result, <<"statistics">>), <<"total_risks">>)
            = Whole(Len(Get(result, <<"risks">>)[2]))

\* C29: the result for a text with no tracked letter holds one record and
\* total_risks 0.
C29_PlaceholderRecordNotCounted ==
    /\ RisksReturned
    /\ calls = 0
    /\ Len(Get(result, <<"risks">>)[2]) = 1
    /\ Get(Get(result, <<"statistics">>), <<"total_risks">>) = Whole(0)

\* the three counts of the severity distribution of the result
SeverityCounts ==
    LET dist == Get(Get(result, <<"statistics">>), <<"severity_distribution">>)
    IN  Get(dist, <<"low">>)[2] + Get(dist, <<"medium">>)[2] + Get(dist, <<"high">>)[2]

\* C29: where the service answered, total_risks is the number of records,
\* and a severity distribution sums to it.
C29_AnsweredRunsCounted ==
    (RisksReturned /\ calls = 1) =>
        /\ Get(Get(result, <<"statistics">>), <<"total_risks">>)
                = Whole(Len(Get(result, <<"risks">>)[2]))
        /\ Has(Get(result, <<"statistics">>), <<"severity_distribution">>)
                => SeverityCounts = Whole(Len(Get(result, <<"risks">>)[2]))[2]

\* ---------------------------------------------------------------- C30
\* the result of analyze_pce for the dataset at position i of the batch
AnalysedAlone(i) ==
    analyze_pce(client, Get(input[i][1], <<"original">>)[2], Get(input[i][1], <<"ota">>)[2],
                Get(input[i][1], <<"name">>)[2], input[i][2])

\* the positions of the datasets analysed without error
Successful ==
    {i \in 1..Len(input) :
        /\ Has(input[i][1], <<"original">>)
        /\ ~Has(AnalysedAlone(i), <<"error">>)}

WeightedOf(i) == Get(Get(AnalysedAlone(i), <<"comparison">>), <<"weighted_improvement">>)[2]

SummaryOf(key) == Get(Get(result[2], <<"summary_statistics">>), key)

\* C30: when some dataset was analysed without error, the best and the worst
\* performing dataset of the summary are names of datasets analysed without
\* error, with the largest and the smallest weighted improvement among them.
C30_BestAndWorstAmongSuccessful ==
    (pc = "batched" /\ Successful # {}) =>
        /\ \E b \in Successful :
            /\ SummaryOf(<<"best_performing_dataset">>) = Get(input[b][1], <<"name">>)
            /\ \A j \in Successful : WeightedOf(j) <= WeightedOf(b)
        /\ \E w \in Successful :
            /\ SummaryOf(<<"worst_performing_dataset">>) = Get(input[w][1], <<"name">>)
            /\ \A j \in Successful : WeightedOf(j) >= WeightedOf(w)

\* C30: a failing dataset comes before the only one analysed, and the
\* summary names the failing dataset as best and worst.
C30_FailedDatasetNamed ==
    /\ pc = "batched"
    /\ Len(input) = 2
    /\ Successful = {2}
    /\ SummaryOf(<<"best_performing_dataset">>) = Str(<<"d", 1>>)
    /\ SummaryOf(<<"worst_performing_dataset">>) = Str(<<"d", 1>>)

\* C30: successful_analyses is the number of datasets analysed without
\* error, and without a failing dataset the names are right.
C30_SuccessesCounted ==
    pc = "batched" =>
        /\ SummaryOf(<<"successful_analyses">>) = Whole(Cardinality(Successful))
        /\ SummaryOf(<<"total_datasets">>) = Whole(Len(input))

====
